---- MODULE Spec2Model ----
(***************************************************************************)
(* The schema edit protocol of the harbourbridge web package               *)
(* (src/web/web.go): the handlers that mutate app.conv, the shared schema  *)
(* model, modelled as operators on the value of app.conv.                  *)
(*                                                                         *)
(* Go maps are functions whose DOMAIN is the key set: reading a missing    *)
(* key yields the zero value (Get), delete restricts the domain (Del) and  *)
(* an assignment extends it (Put).  Go slices are sequences.               *)
(***************************************************************************)
EXTENDS Integers, Sequences, FiniteSets, TLC

VARIABLES
    conv,     \* app.conv: SrcSchema, SpSchema, ToSource, ToSpanner, Issues, SyntheticPKeys
    driver,   \* app.driver
    resp,     \* the status of the response to the latest request
    steps,    \* the number of requests handled so far
    tableInterleaveIssues,  \* the TableInterleaveStatus of the latest interleave check
    pending,  \* ProcessSQLData: the tables (and their rows) still to be processed
    stats,    \* conv.Stats: Rows, BadRows, Unexpected
    sink      \* the rows handed to conv.WriteRow and to conv.CollectBadRow

vars == <<conv, driver, resp, steps, tableInterleaveIssues, pending, stats, sink>>

----------------------------------------------------------------------------
(* Bounds of the model. *)

\* updateTableSchema is explored while no primary-key list is longer than this.
MaxPks == 3

\* The number of synthetic key names AddPrimaryKeys may draw from.
MaxSynth == 2

\* The number of column records in one updateTableSchema request.
MaxBatch == 2

\* The number of requests of a session.
MaxSteps == 2

\* The number of rows of each source table in a data conversion run.
MaxRows == 2

\* The number of tables getTables lists in a schema conversion run.
MaxTables == 3

\* The number of rows the constraint query of a table yields.
MaxKeyRows == 3

\* The number of foreign-key constraints of a table.
MaxFkeys == 2

----------------------------------------------------------------------------
(* Go maps and slices. *)

Get(m, k, zero) == IF k \in DOMAIN m THEN m[k] ELSE zero

Put(m, k, v) == [x \in (DOMAIN m) \cup {k} |-> IF x = k THEN v ELSE m[x]]

Del(m, k) == [x \in (DOMAIN m) \ {k} |-> m[x]]

EmptyMap == <<>>

\* The 1-based position of the first element equal to col, 0 when there is
\* none: the loops "for i, c := range s { if c == col { ...; break } }".
IndexOfCol(s, col) ==
    IF \E i \in 1..Len(s) : s[i] = col
    THEN CHOOSE i \in 1..Len(s) : s[i] = col /\ \A j \in 1..(i - 1) : s[j] # col
    ELSE 0

\* The same loop over a primary-key list: "if pk.Col == col".
IndexOfPk(pks, col) ==
    IF \E i \in 1..Len(pks) : pks[i].Col = col
    THEN CHOOSE i \in 1..Len(pks) : pks[i].Col = col /\ \A j \in 1..(i - 1) : pks[j].Col # col
    ELSE 0

\* append(slice[:s], slice[s+1:]...), with i the 1-based position.
remove(slice, i) == SubSeq(slice, 1, i - 1) \o SubSeq(slice, i + 1, Len(slice))

removePk(slice, i) == SubSeq(slice, 1, i - 1) \o SubSeq(slice, i + 1, Len(slice))

Range(s) == {s[i] : i \in 1..Len(s)}

----------------------------------------------------------------------------
(* Zero values of the Go structs. *)

\* ddl.MaxLength (math.MaxInt64) lies outside TLC's integers: a value that
\* no length modifier of the model has stands for it.
MaxLength == -1

ZeroType == [Name |-> "", Len |-> 0, IsArray |-> FALSE]

ZeroColumnDef == [Name |-> "", T |-> ZeroType, NotNull |-> FALSE, Comment |-> ""]

ZeroCreateTable ==
    [Name |-> "", ColNames |-> <<>>, ColDefs |-> EmptyMap, Pks |-> <<>>,
     Fks |-> <<>>, Parent |-> ""]

ZeroNameAndCols == [Name |-> "", Cols |-> EmptyMap]

ZeroSrcType == [Name |-> "", Mods |-> <<>>, ArrayBounds |-> <<>>]

ZeroIgnored == [Default |-> FALSE, AutoIncrement |-> FALSE]

ZeroSrcColumn ==
    [Name |-> "", Type |-> ZeroSrcType, NotNull |-> FALSE, Ignored |-> ZeroIgnored]

ZeroSrcTable ==
    [Name |-> "", ColNames |-> <<>>, ColDefs |-> EmptyMap, PrimaryKeys |-> <<>>,
     ForeignKeys |-> <<>>]

----------------------------------------------------------------------------
(* The Type Mapper of the PostgreSQL dialect (spec section 4.1): a fixed     *)
(* compatibility table from a source type name and a desired target family *)
(* to a target type and a list of issues.                                  *)

StringMax == [Name |-> "STRING", Len |-> MaxLength, IsArray |-> FALSE]

Scalar(name) == [Name |-> name, Len |-> 0, IsArray |-> FALSE]

Sized(name, mods) ==
    [Name |-> name, Len |-> IF Len(mods) > 0 THEN mods[1] ELSE MaxLength, IsArray |-> FALSE]

toSpannerTypePostgres(srcType, spType, mods) ==
    CASE srcType = "bool" ->
            CASE spType = "STRING" -> [ty |-> StringMax, issues |-> <<"Widened">>]
              [] spType = "INT64" -> [ty |-> Scalar("INT64"), issues |-> <<"Widened">>]
              [] OTHER -> [ty |-> Scalar("BOOL"), issues |-> <<>>]
      [] srcType = "int8" ->
            CASE spType = "STRING" -> [ty |-> StringMax, issues |-> <<"Widened">>]
              [] OTHER -> [ty |-> Scalar("INT64"), issues |-> <<>>]
      [] srcType = "int4" ->
            CASE spType = "STRING" -> [ty |-> StringMax, issues |-> <<"Widened">>]
              [] OTHER -> [ty |-> Scalar("INT64"), issues |-> <<"Widened">>]
      [] srcType = "varchar" ->
            CASE spType = "BYTES" -> [ty |-> Sized("BYTES", mods), issues |-> <<>>]
              [] OTHER -> [ty |-> Sized("STRING", mods), issues |-> <<>>]
      [] srcType = "bytea" ->
            CASE spType = "STRING" -> [ty |-> StringMax, issues |-> <<>>]
              [] OTHER -> [ty |-> [Name |-> "BYTES", Len |-> MaxLength, IsArray |-> FALSE],
                           issues |-> <<>>]
      [] srcType = "date" ->
            CASE spType = "STRING" -> [ty |-> StringMax, issues |-> <<"Widened">>]
              [] OTHER -> [ty |-> Scalar("DATE"), issues |-> <<>>]
      [] srcType = "float8" ->
            CASE spType = "STRING" -> [ty |-> StringMax, issues |-> <<"Widened">>]
              [] OTHER -> [ty |-> Scalar("FLOAT64"), issues |-> <<>>]
      [] srcType = "text" ->
            CASE spType = "BYTES" -> [ty |-> [Name |-> "BYTES", Len |-> MaxLength, IsArray |-> FALSE],
                                      issues |-> <<>>]
              [] OTHER -> [ty |-> StringMax, issues |-> <<>>]
      [] srcType = "timestamptz" ->
            CASE spType = "STRING" -> [ty |-> StringMax, issues |-> <<"Widened">>]
              [] OTHER -> [ty |-> Scalar("TIMESTAMP"), issues |-> <<>>]
      [] OTHER -> [ty |-> StringMax, issues |-> <<"NoGoodType">>]

----------------------------------------------------------------------------
(* The source databases a session starts from. *)

SrcCol(name, tyName, mods, bounds, notNull, hasDefault) ==
    [Name |-> name,
     Type |-> [Name |-> tyName, Mods |-> mods, ArrayBounds |-> bounds],
     NotNull |-> notNull,
     Ignored |-> [Default |-> hasDefault, AutoIncrement |-> FALSE]]

\* t(a int8 primary key, b varchar(10) default ...)
KeyedDatabase ==
    [t |-> [Name |-> "t", ColNames |-> <<"a", "b">>,
            ColDefs |-> [a |-> SrcCol("a", "int8", <<>>, <<>>, TRUE, FALSE),
                         b |-> SrcCol("b", "varchar", <<10>>, <<>>, FALSE, TRUE)],
            PrimaryKeys |-> <<"a">>,
            ForeignKeys |-> <<>>]]

\* t(a bool not null, b int8), no primary key
KeylessDatabase ==
    [t |-> [Name |-> "t", ColNames |-> <<"a", "b">>,
            ColDefs |-> [a |-> SrcCol("a", "bool", <<>>, <<>>, TRUE, FALSE),
                         b |-> SrcCol("b", "int8", <<>>, <<>>, FALSE, FALSE)],
            PrimaryKeys |-> <<>>,
            ForeignKeys |-> <<>>]]

SourceDatabases == {KeyedDatabase, KeylessDatabase}

----------------------------------------------------------------------------
(* Schema model construction (spec section 4.3). *)

\* The issues that do not depend on the family chosen, appended by every caller
\* of the Type Mapper.
withFamilyIndependentIssues(srcCol, issues) ==
    LET i1 == IF Len(srcCol.Type.ArrayBounds) > 1
              THEN Append(issues, "MultiDimensionalArray") ELSE issues
        i2 == IF srcCol.Ignored.Default THEN Append(i1, "DefaultValue") ELSE i1
    IN  IF srcCol.Ignored.AutoIncrement THEN Append(i2, "AutoIncrement") ELSE i2

\* As finalType, an array of arrays mapped to an array of the element type.
finalTypeNested(srcCol, ty) == [ty EXCEPT !.IsArray = (Len(srcCol.Type.ArrayBounds) >= 1)]

\* The target type a caller of the Type Mapper settles on.
finalType(srcCol, ty) ==
    LET t1 == IF Len(srcCol.Type.ArrayBounds) > 1 THEN StringMax ELSE ty
    IN  [t1 EXCEPT !.IsArray = (Len(srcCol.Type.ArrayBounds) = 1)]

schemaToDDL(src) ==
    LET colDef(tb, c) ==
            LET sc == src[tb].ColDefs[c]
                m == toSpannerTypePostgres(sc.Type.Name, "", sc.Type.Mods)
            IN  [Name |-> c, T |-> finalType(sc, m.ty), NotNull |-> sc.NotNull,
                 Comment |-> "From: " \o c \o " " \o sc.Type.Name]
        issuesOf(tb, c) ==
            LET sc == src[tb].ColDefs[c]
            IN  withFamilyIndependentIssues(
                    sc, toSpannerTypePostgres(sc.Type.Name, "", sc.Type.Mods).issues)
    IN  [SrcSchema |-> src,
         SpSchema |->
            [tb \in DOMAIN src |->
                [Name |-> tb,
                 ColNames |-> src[tb].ColNames,
                 ColDefs |-> [c \in DOMAIN src[tb].ColDefs |-> colDef(tb, c)],
                 Pks |-> [i \in 1..Len(src[tb].PrimaryKeys) |->
                            [Col |-> src[tb].PrimaryKeys[i], Desc |-> FALSE]],
                 Fks |-> src[tb].ForeignKeys,
                 Parent |-> ""]],
         ToSource |->
            [tb \in DOMAIN src |->
                [Name |-> tb, Cols |-> [c \in DOMAIN src[tb].ColDefs |-> c]]],
         ToSpanner |->
            [tb \in DOMAIN src |->
                [Name |-> tb, Cols |-> [c \in DOMAIN src[tb].ColDefs |-> c]]],
         Issues |->
            [tb \in DOMAIN src |->
                [c \in {d \in DOMAIN src[tb].ColDefs : issuesOf(tb, d) # <<>>} |->
                    issuesOf(tb, c)]],
         SyntheticPKeys |-> EmptyMap]

\* The names buildPrimaryKey tries, in order.
SynthNames == <<"synth_id", "synth_id0", "synth_id1", "synth_id2">>

SynthPool == SubSeq(SynthNames, 1, MaxSynth)

taken(ct, k) == k \in Range(ct.ColNames) \/ k \in DOMAIN ct.ColDefs

\* The tables without primary key.
needsKey(cv) == {tb \in DOMAIN cv.SpSchema : Len(cv.SpSchema[tb].Pks) = 0}

\* The pool holds a fresh name for every table that needs one.
CanAddPrimaryKeys(cv) ==
    \A tb \in needsKey(cv) : \E i \in 1..Len(SynthPool) : ~taken(cv.SpSchema[tb], SynthPool[i])

buildPrimaryKey(cv, tb) ==
    LET free == {i \in 1..Len(SynthPool) : ~taken(cv.SpSchema[tb], SynthPool[i])}
    IN  SynthPool[CHOOSE i \in free : \A j \in free : i <= j]

\* conv.AddPrimaryKeys(): every table without primary key gets a synthetic one.
AddPrimaryKeys(cv) ==
    LET keyed(tb) ==
            LET ct == cv.SpSchema[tb]
                k == buildPrimaryKey(cv, tb)
            IN  [ct EXCEPT !.ColNames = Append(ct.ColNames, k),
                           !.ColDefs = Put(ct.ColDefs, k,
                                [Name |-> k, T |-> Scalar("INT64"), NotNull |-> FALSE,
                                 Comment |-> ""]),
                           !.Pks = <<[Col |-> k, Desc |-> FALSE]>>]
    IN  [cv EXCEPT
            !.SpSchema = [tb \in DOMAIN cv.SpSchema |->
                            IF tb \in needsKey(cv) THEN keyed(tb) ELSE cv.SpSchema[tb]],
            !.SyntheticPKeys =
                [tb \in (DOMAIN cv.SyntheticPKeys) \cup needsKey(cv) |->
                    IF tb \in needsKey(cv)
                    THEN [Col |-> buildPrimaryKey(cv, tb), Sequence |-> 0]
                    ELSE cv.SyntheticPKeys[tb]]]

\* ProcessInfoSchema: schemaToDDL(conv); conv.AddPrimaryKeys().
ProcessInfoSchema(src) == AddPrimaryKeys(schemaToDDL(src))

----------------------------------------------------------------------------
(* The column mutators of web.go.  Each takes the value of app.conv and      *)
(* yields the value the Go function leaves in it.                            *)

SpTable(cv, table) == Get(cv.SpSchema, table, ZeroCreateTable)

ToSourceCols(cv, table) == Get(cv.ToSource, table, ZeroNameAndCols).Cols

ToSpannerCols(cv, srcTable) == Get(cv.ToSpanner, srcTable, ZeroNameAndCols).Cols

IssuesOf(cv, srcTable) == Get(cv.Issues, srcTable, EmptyMap)

\* m[table].Cols = cols, for a table the map holds (the Go code writes through
\* the inner map, which exists for every table of the model).
SetCols(m, table, cols) ==
    IF table \in DOMAIN m THEN [m EXCEPT ![table].Cols = cols] ELSE m

SetIssues(m, srcTable, issues) ==
    IF srcTable \in DOMAIN m THEN [m EXCEPT ![srcTable] = issues] ELSE m

removeColumn(cv, table, colName, srcTableName) ==
    LET sp == SpTable(cv, table)
        i == IndexOfCol(sp.ColNames, colName)
        colNames == IF i > 0 THEN remove(sp.ColNames, i) ELSE sp.ColNames
        p == IndexOfPk(sp.Pks, colName)
        pks == IF p > 0 THEN removePk(sp.Pks, p) ELSE sp.Pks
        srcColName == Get(ToSourceCols(cv, table), colName, "")
    IN  [cv EXCEPT
            !.SpSchema = Put(cv.SpSchema, table,
                [sp EXCEPT !.ColNames = colNames,
                           !.ColDefs = Del(sp.ColDefs, colName),
                           !.Pks = pks]),
            !.ToSource = SetCols(cv.ToSource, table, Del(ToSourceCols(cv, table), colName)),
            !.ToSpanner = SetCols(cv.ToSpanner, srcTableName,
                                  Del(ToSpannerCols(cv, srcTableName), srcColName)),
            !.Issues = SetIssues(cv.Issues, srcTableName,
                                 Del(IssuesOf(cv, srcTableName), srcColName))]

\* renameColumn without the loop over sp.Pks: the primary key keeps the old name.
renameColumnKeepingPk(cv, newName, table, colName, srcTableName) ==
    LET sp == SpTable(cv, table)
        i == IndexOfCol(sp.ColNames, colName)
        colNames == IF i > 0 THEN [sp.ColNames EXCEPT ![i] = newName] ELSE sp.ColNames
        colDefs ==
            IF colName \in DOMAIN sp.ColDefs
            THEN Del(Put(sp.ColDefs, newName,
                         [sp.ColDefs[colName] EXCEPT !.Name = newName]),
                     colName)
            ELSE sp.ColDefs
        srcColName == Get(ToSourceCols(cv, table), colName, "")
    IN  [cv EXCEPT
            !.SpSchema = Put(cv.SpSchema, table,
                [sp EXCEPT !.ColNames = colNames, !.ColDefs = colDefs]),
            !.ToSpanner = SetCols(cv.ToSpanner, srcTableName,
                                  Put(ToSpannerCols(cv, srcTableName), srcColName, newName)),
            !.ToSource = SetCols(cv.ToSource, table,
                                 Del(Put(ToSourceCols(cv, table), newName, srcColName),
                                     colName))]

renameColumn(cv, newName, table, colName, srcTableName) ==
    LET sp == SpTable(cv, table)
        i == IndexOfCol(sp.ColNames, colName)
        colNames == IF i > 0 THEN [sp.ColNames EXCEPT ![i] = newName] ELSE sp.ColNames
        colDefs ==
            IF colName \in DOMAIN sp.ColDefs
            THEN Del(Put(sp.ColDefs, newName,
                         [Name |-> newName,
                          T |-> sp.ColDefs[colName].T,
                          NotNull |-> sp.ColDefs[colName].NotNull,
                          Comment |-> sp.ColDefs[colName].Comment]),
                     colName)
            ELSE sp.ColDefs
        p == IndexOfPk(sp.Pks, colName)
        pks == IF p > 0 THEN [sp.Pks EXCEPT ![p].Col = newName] ELSE sp.Pks
        srcColName == Get(ToSourceCols(cv, table), colName, "")
    IN  [cv EXCEPT
            !.SpSchema = Put(cv.SpSchema, table,
                [sp EXCEPT !.ColNames = colNames, !.ColDefs = colDefs, !.Pks = pks]),
            !.ToSpanner = SetCols(cv.ToSpanner, srcTableName,
                                  Put(ToSpannerCols(cv, srcTableName), srcColName, newName)),
            !.ToSource = SetCols(cv.ToSource, table,
                                 Del(Put(ToSourceCols(cv, table), newName, srcColName),
                                     colName))]

\* pkChanged, pkChange == "REMOVED": the first entry for colName leaves sp.Pks.
pkRemoved(sp, colName) ==
    LET r == IndexOfPk(sp.Pks, colName)
    IN  IF r > 0 THEN [sp EXCEPT !.Pks = removePk(sp.Pks, r)] ELSE sp

\* pkChanged, pkChange == "ADDED", a synthetic key found: its column leaves
\* sp.ColNames, sp.ColDefs and sp.Pks.  app.conv.SyntheticPKeys is not written.
dropSyntheticKey(sp, sPkCol) ==
    LET i == IndexOfCol(sp.ColNames, sPkCol)
        p == IndexOfPk(sp.Pks, sPkCol)
    IN  [sp EXCEPT !.ColNames = IF i > 0 THEN remove(sp.ColNames, i) ELSE sp.ColNames,
                   !.ColDefs = Del(sp.ColDefs, sPkCol),
                   !.Pks = IF p > 0 THEN removePk(sp.Pks, p) ELSE sp.Pks]

appendPk(sp, colName) ==
    [sp EXCEPT !.Pks = Append(sp.Pks, [Col |-> colName, Desc |-> FALSE])]

pkAdded(cv, sp, table, colName) ==
    appendPk(IF table \in DOMAIN cv.SyntheticPKeys
             THEN dropSyntheticKey(sp, cv.SyntheticPKeys[table].Col)
             ELSE sp,
             colName)

pkChanged(cv, pkChange, table, colName) ==
    [cv EXCEPT !.SpSchema =
        Put(cv.SpSchema, table,
            CASE pkChange = "REMOVED" -> pkRemoved(SpTable(cv, table), colName)
              [] pkChange = "ADDED" -> pkAdded(cv, SpTable(cv, table), table, colName)
              [] OTHER -> SpTable(cv, table))]

DriverSupported(drv) == drv \in {"mysql", "mysqldump", "pg_dump", "postgres"}

\* toSpannerTypeMySQL or toSpannerTypePostgres, as the switch on app.driver
\* selects (the sessions of the model run the PostgreSQL dialect).
toSpannerType(drv, srcType, spType, mods) == toSpannerTypePostgres(srcType, spType, mods)

\* The source type name a target type would be read back as.
asSourceType(ty) ==
    CASE ty.Name = "BOOL" -> "bool"
      [] ty.Name = "INT64" -> "int8"
      [] ty.Name = "STRING" -> "varchar"
      [] OTHER -> ""

\* The source column updateType reads for the target column newColName.
sourceColumn(cv, table, newColName, srcTableName) ==
    Get(Get(cv.SrcSchema, srcTableName, ZeroSrcTable).ColDefs,
        Get(ToSourceCols(cv, table), newColName, ""), ZeroSrcColumn)

\* As setType, the issues recorded under the name of the target column.
setTypeUnderTargetName(cv, table, newColName, srcTableName, srcCol, m) ==
    LET sp == SpTable(cv, table)
        issues == withFamilyIndependentIssues(srcCol, m.issues)
        colDef == [Get(sp.ColDefs, newColName, ZeroColumnDef)
                      EXCEPT !.T = finalType(srcCol, m.ty)]
    IN  [cv EXCEPT
            !.Issues = IF Len(issues) > 0
                       THEN SetIssues(cv.Issues, srcTableName,
                                Put(IssuesOf(cv, srcTableName), newColName, issues))
                       ELSE cv.Issues,
            !.SpSchema = Put(cv.SpSchema, table,
                            [sp EXCEPT !.ColDefs = Put(sp.ColDefs, newColName, colDef)])]

\* updateType from "if len(srcCol.Type.ArrayBounds) > 1" on: m is what the type
\* mapper returned.
setType(cv, table, newColName, srcTableName, srcCol, m) ==
    LET sp == SpTable(cv, table)
        issues == withFamilyIndependentIssues(srcCol, m.issues)
        colDef == [Get(sp.ColDefs, newColName, ZeroColumnDef)
                      EXCEPT !.T = finalType(srcCol, m.ty)]
    IN  [cv EXCEPT
            !.Issues = IF Len(issues) > 0
                       THEN SetIssues(cv.Issues, srcTableName,
                                Put(IssuesOf(cv, srcTableName), srcCol.Name, issues))
                       ELSE cv.Issues,
            !.SpSchema = Put(cv.SpSchema, table,
                            [sp EXCEPT !.ColDefs = Put(sp.ColDefs, newColName, colDef)])]

\* The type mapper applied to the column's current target type.
mapTargetType(drv, cur, newType) ==
    toSpannerType(drv, asSourceType(cur), newType, IF cur.Len > 0 THEN <<cur.Len>> ELSE <<>>)

\* updateType mapping the column's current target type, not its source type.
updateTypeFromTarget(cv, drv, newType, table, newColName, srcTableName) ==
    IF ~DriverSupported(drv)
    THEN [cv |-> cv, failed |-> TRUE]
    ELSE [cv |-> setType(cv, table, newColName, srcTableName,
                         sourceColumn(cv, table, newColName, srcTableName),
                         mapTargetType(drv,
                            Get(SpTable(cv, table).ColDefs, newColName, ZeroColumnDef).T,
                            newType)),
          failed |-> FALSE]

\* The type mapper applied to the source column.
mapSourceType(drv, srcCol, newType) ==
    toSpannerType(drv, srcCol.Type.Name, newType, srcCol.Type.Mods)

\* Yields [cv, failed]: failed when the driver is not supported (http.Error and
\* return, app.conv untouched).
updateType(cv, drv, newType, table, newColName, srcTableName) ==
    IF ~DriverSupported(drv)
    THEN [cv |-> cv, failed |-> TRUE]
    ELSE [cv |-> setType(cv, table, newColName, srcTableName,
                         sourceColumn(cv, table, newColName, srcTableName),
                         mapSourceType(drv,
                            sourceColumn(cv, table, newColName, srcTableName), newType)),
          failed |-> FALSE]

updateNotNull(cv, notNullChange, table, newColName) ==
    LET sp == SpTable(cv, table)
        spColDef == Get(sp.ColDefs, newColName, ZeroColumnDef)
        sp1 == CASE notNullChange = "ADDED" ->
                        [sp EXCEPT !.ColDefs =
                            Put(sp.ColDefs, newColName, [spColDef EXCEPT !.NotNull = TRUE])]
                 [] notNullChange = "REMOVED" ->
                        [sp EXCEPT !.ColDefs =
                            Put(sp.ColDefs, newColName, [spColDef EXCEPT !.NotNull = FALSE])]
                 [] OTHER -> sp
    IN  [cv EXCEPT !.SpSchema = Put(cv.SpSchema, table, sp1)]

----------------------------------------------------------------------------
(* updateTableSchema.  A request is the target table and the map UpdateCols; *)
(* the map is given as the sequence of its entries in the order the Go       *)
(* range statement happens to visit them.                                    *)

StatusOK == "200 OK"

StatusBadRequest == "400 Bad Request"

\* The steps of the loop body after "continue".  Each takes the value of
\* app.conv so far; u is [cv, failed].
renameStep(cv, table, srcTableName, colName, v) ==
    IF v.Rename # "" /\ v.Rename # colName
    THEN renameColumn(cv, v.Rename, table, colName, srcTableName)
    ELSE cv

newColNameOf(colName, v) ==
    IF v.Rename # "" /\ v.Rename # colName THEN v.Rename ELSE colName

pkStep(cv, table, newColName, v) ==
    IF v.PK # "" THEN pkChanged(cv, v.PK, table, newColName) ELSE cv

typeStep(cv, drv, table, srcTableName, newColName, v) ==
    IF v.ToType # ""
    THEN updateType(cv, drv, v.ToType, table, newColName, srcTableName)
    ELSE [cv |-> cv, failed |-> FALSE]

notNullStep(u, table, newColName, v) ==
    [cv |-> IF v.NotNull # "" THEN updateNotNull(u.cv, v.NotNull, table, newColName)
            ELSE u.cv,
     failed |-> u.failed]

\* The status line: the first http.Error or WriteHeader wins.
written(st, u) ==
    [cv |-> u.cv,
     status |-> IF u.failed /\ st.status = "" THEN StatusBadRequest ELSE st.status]

\* The loop body handing the old name to the steps after the rename.
applyUpdateColOldName(st, drv, table, srcTableName, colName, v) ==
    IF v.Removed
    THEN [st EXCEPT !.cv = removeColumn(st.cv, table, colName, srcTableName)]
    ELSE written(st,
            notNullStep(
                typeStep(
                    pkStep(renameStep(st.cv, table, srcTableName, colName, v),
                           table, colName, v),
                    drv, table, srcTableName, colName, v),
                table, colName, v))

\* The rename step without the test "v.Rename != colName".
renameStepAlways(cv, table, srcTableName, colName, v) ==
    IF v.Rename # ""
    THEN renameColumn(cv, v.Rename, table, colName, srcTableName)
    ELSE cv

\* The loop body without the test "v.Rename != colName".
applyUpdateColRenamingAlways(st, drv, table, srcTableName, colName, v) ==
    IF v.Removed
    THEN [st EXCEPT !.cv = removeColumn(st.cv, table, colName, srcTableName)]
    ELSE written(st,
            notNullStep(
                typeStep(
                    pkStep(renameStepAlways(st.cv, table, srcTableName, colName, v),
                           table, newColNameOf(colName, v), v),
                    drv, table, srcTableName, newColNameOf(colName, v), v),
                table, newColNameOf(colName, v), v))

\* The loop body for one entry colName -> v.  st is [cv, status], status being
\* the status line written so far ("" when none).
applyUpdateCol(st, drv, table, srcTableName, colName, v) ==
    IF v.Removed
    THEN [st EXCEPT !.cv = removeColumn(st.cv, table, colName, srcTableName)]
    ELSE written(st,
            notNullStep(
                typeStep(
                    pkStep(renameStep(st.cv, table, srcTableName, colName, v),
                           table, newColNameOf(colName, v), v),
                    drv, table, srcTableName, newColNameOf(colName, v), v),
                table, newColNameOf(colName, v), v))

RECURSIVE applyUpdateCols(_, _, _, _, _)
applyUpdateCols(st, drv, table, srcTableName, entries) ==
    IF entries = <<>>
    THEN st
    ELSE applyUpdateCols(
            applyUpdateCol(st, drv, table, srcTableName, Head(entries).col, Head(entries).v),
            drv, table, srcTableName, Tail(entries))

\* The state the loop of updateTableSchema leaves, before conv.AddPrimaryKeys().
updateColsLoop(cv, drv, table, entries) ==
    applyUpdateCols([cv |-> cv, status |-> ""], drv, table,
                    Get(cv.ToSource, table, ZeroNameAndCols).Name, entries)

\* The end of the handler: conv.AddPrimaryKeys() and the response.
respond(st) ==
    [cv |-> AddPrimaryKeys(st.cv),
     status |-> IF st.status = "" THEN StatusOK ELSE st.status]

\* The whole handler on a well-formed body: [cv, status].
updateTableSchema(cv, drv, table, entries) ==
    respond(updateColsLoop(cv, drv, table, entries))

----------------------------------------------------------------------------
(* The requests of the model. *)

\* The column names a request may mention: the columns of the source tables, a
\* name no table has, and the first synthetic key name.
ColNamePool == {"a", "b", "c", "synth_id"}

Families == {"INT64", "STRING"}

Toggles == {"ADDED", "REMOVED"}

NoChange == [Removed |-> FALSE, Rename |-> "", PK |-> "", NotNull |-> "", ToType |-> ""]

\* Every record over the pools; a record with Removed set is tried without and
\* with the other four fields set.
UpdateColValues ==
    [Removed : {FALSE}, Rename : {""} \cup ColNamePool, PK : {""} \cup Toggles,
     NotNull : {""} \cup Toggles, ToType : {""} \cup Families]
    \cup {[NoChange EXCEPT !.Removed = TRUE],
          [Removed |-> TRUE, Rename |-> "c", PK |-> "ADDED", NotNull |-> "ADDED",
           ToType |-> "STRING"]}

\* The records with one change.
SingleChanges ==
    {[NoChange EXCEPT !.Removed = TRUE]}
    \cup {[NoChange EXCEPT !.Rename = n] : n \in {"b", "c"}}
    \cup {[NoChange EXCEPT !.PK = k] : k \in Toggles}
    \cup {[NoChange EXCEPT !.NotNull = k] : k \in Toggles}
    \cup {[NoChange EXCEPT !.ToType = f] : f \in Families}

\* The records the session sends: one change, or all of them at once.
SessionValues ==
    SingleChanges
    \cup {[Removed |-> r, Rename |-> "c", PK |-> "ADDED", NotNull |-> "ADDED",
           ToType |-> "STRING"] : r \in BOOLEAN}

\* The records of the requests with several entries.
BatchValues == {[NoChange EXCEPT !.Removed = TRUE], [NoChange EXCEPT !.Rename = "c"]}

\* The columns the requests with several entries mention.
BatchCols == {"a", "b", "c"}

Entry(c, v) == [col |-> c, v |-> v]

\* The sequences of n entries with distinct keys, each record from vs.
RECURSIVE EntrySeqs(_, _)
EntrySeqs(n, vs) ==
    IF n = 0
    THEN {<<>>}
    ELSE UNION {{Append(es, Entry(c, v)) :
                    c \in BatchCols \ {es[i].col : i \in 1..Len(es)}, v \in vs} :
                es \in EntrySeqs(n - 1, vs)}

\* The requests the session sends.
Requests ==
    {<<Entry(c, v)>> : c \in ColNamePool, v \in SessionValues}
    \cup UNION {EntrySeqs(n, BatchValues) : n \in 2..MaxBatch}

\* Every request with one entry.
AllSingleRequests == {<<Entry(c, v)>> : c \in ColNamePool, v \in UpdateColValues}

----------------------------------------------------------------------------
(* The session: a schema conversion has succeeded, and then requests arrive  *)
(* one at a time.                                                            *)

\* No interleave check has been answered.
NoInterleaveStatus == [Possible |-> FALSE, Parent |-> "", Comment |-> ""]

\* No data conversion is under way.
NoStats == [Rows |-> EmptyMap, BadRows |-> EmptyMap, Unexpected |-> 0]

NoSink == [rows |-> <<>>, badRows |-> <<>>]

DataIdle ==
    /\ pending = <<>>
    /\ stats = NoStats
    /\ sink = NoSink

Init ==
    /\ conv \in {ProcessInfoSchema(src) : src \in SourceDatabases}
    /\ driver = "postgres"
    /\ resp = StatusOK
    /\ steps = 0
    /\ tableInterleaveIssues = NoInterleaveStatus
    /\ DataIdle

WithinBounds(cv) ==
    \A tb \in DOMAIN cv.SpSchema : Len(cv.SpSchema[tb].Pks) <= MaxPks

\* The handler's result r becomes the state of the application.
Served(r) ==
    /\ WithinBounds(r.cv)
    /\ conv' = r.cv
    /\ resp' = r.status
    /\ steps' = steps + 1
    /\ UNCHANGED <<driver, tableInterleaveIssues, pending, stats, sink>>

\* POST /typemap/table?table=...: a well-formed body.
UpdateTableSchema ==
    \E table \in DOMAIN conv.SpSchema, entries \in Requests :
        /\ steps < MaxSteps
        /\ CanAddPrimaryKeys(updateColsLoop(conv, driver, table, entries).cv)
        /\ Served(updateTableSchema(conv, driver, table, entries))

\* The same request with a body json.Unmarshal rejects.
UpdateTableSchemaBadBody ==
    /\ steps < MaxSteps
    /\ resp' = StatusBadRequest
    /\ steps' = steps + 1
    /\ UNCHANGED <<conv, driver, tableInterleaveIssues, pending, stats, sink>>

Next == UpdateTableSchema \/ UpdateTableSchemaBadBody

Spec == Init /\ [][Next]_vars

----------------------------------------------------------------------------
(* What the properties speak of. *)

Tables == DOMAIN conv.SpSchema

SrcTableOf(cv, table) == Get(cv.ToSource, table, ZeroNameAndCols).Name

\* c is a column of the target table: it is listed and it has a definition.
IsColumn(cv, table, c) ==
    c \in Range(SpTable(cv, table).ColNames) /\ c \in DOMAIN SpTable(cv, table).ColDefs

\* n is a name that nothing of the target table bears.
IsNewName(cv, table, n) ==
    /\ n \notin Range(SpTable(cv, table).ColNames)
    /\ n \notin DOMAIN SpTable(cv, table).ColDefs

PkCols(cv, table) == {SpTable(cv, table).Pks[i].Col : i \in 1..Len(SpTable(cv, table).Pks)}

\* A request with the one entry c -> v.
One(c, v) == <<Entry(c, v)>>

----------------------------------------------------------------------------
\* C1: ToSource and ToSpanner are exact mutual inverses in every state reached
\* by updateTableSchema requests: ToSource[t].Cols[c] = s implies
\* ToSpanner[ToSource[t].Name].Cols[s] = c, and ToSpanner[u].Cols[s] = c implies
\* ToSource[ToSpanner[u].Name].Cols[c] = s.
C1_MutualInverses ==
    /\ \A t \in DOMAIN conv.ToSource : \A c \in DOMAIN conv.ToSource[t].Cols :
            LET u == conv.ToSource[t].Name
                s == conv.ToSource[t].Cols[c]
            IN  /\ u \in DOMAIN conv.ToSpanner
                /\ s \in DOMAIN conv.ToSpanner[u].Cols
                /\ conv.ToSpanner[u].Cols[s] = c
    /\ \A u \in DOMAIN conv.ToSpanner : \A s \in DOMAIN conv.ToSpanner[u].Cols :
            LET t == conv.ToSpanner[u].Name
                c == conv.ToSpanner[u].Cols[s]
            IN  /\ t \in DOMAIN conv.ToSource
                /\ c \in DOMAIN conv.ToSource[t].Cols
                /\ conv.ToSource[t].Cols[c] = s

----------------------------------------------------------------------------
\* C2: removeColumn(table, c), for a column c of the target table, leaves c
\* absent from ColNames, ColDefs and Pks, deletes the entry c of
\* ToSource[table].Cols, the entry of its source column in
\* ToSpanner[srcTable].Cols and that column's issue list, and changes no other
\* column's entries.
C2_RemovePost(pre, post, t, c) ==
    LET u == SrcTableOf(pre, t)
        s == Get(ToSourceCols(pre, t), c, "")
        before == SpTable(pre, t)
        after == SpTable(post, t)
    IN  /\ c \notin Range(after.ColNames)
        /\ c \notin DOMAIN after.ColDefs
        /\ c \notin PkCols(post, t)
        /\ c \notin DOMAIN ToSourceCols(post, t)
        /\ s \notin DOMAIN ToSpannerCols(post, u)
        /\ s \notin DOMAIN IssuesOf(post, u)
        /\ Range(after.ColNames) = Range(before.ColNames) \ {c}
        /\ after.ColDefs = Del(before.ColDefs, c)
        /\ PkCols(post, t) = PkCols(pre, t) \ {c}
        /\ ToSourceCols(post, t) = Del(ToSourceCols(pre, t), c)
        /\ ToSpannerCols(post, u) = Del(ToSpannerCols(pre, u), s)
        /\ IssuesOf(post, u) = Del(IssuesOf(pre, u), s)

C2_RemoveColumn ==
    \A t \in Tables : \A c \in ColNamePool :
        IsColumn(conv, t, c) =>
            C2_RemovePost(conv, removeColumn(conv, t, c, SrcTableOf(conv, t)), t, c)

----------------------------------------------------------------------------
\* C3: renameColumn of a column c of the target table to a new name n puts n
\* at c's position in ColNames, moves c's definition (type, not-null flag,
\* comment) to n, renames c's primary-key entry in place with its descending
\* flag kept, links n to the source column c was linked to in both
\* correspondence maps, and leaves no entry c in ColDefs or ToSource.
C3_RenamePost(pre, post, t, c, n) ==
    LET u == SrcTableOf(pre, t)
        s == Get(ToSourceCols(pre, t), c, "")
        before == SpTable(pre, t)
        after == SpTable(post, t)
        i == IndexOfCol(before.ColNames, c)
        p == IndexOfPk(before.Pks, c)
    IN  /\ after.ColNames = [before.ColNames EXCEPT ![i] = n]
        /\ n \in DOMAIN after.ColDefs
        /\ after.ColDefs[n] = [before.ColDefs[c] EXCEPT !.Name = n]
        /\ c \notin DOMAIN after.ColDefs
        /\ Len(after.Pks) = Len(before.Pks)
        /\ p > 0 => after.Pks[p] = [Col |-> n, Desc |-> before.Pks[p].Desc]
        /\ \A k \in 1..Len(before.Pks) : k # p => after.Pks[k] = before.Pks[k]
        /\ n \in DOMAIN ToSourceCols(post, t)
        /\ ToSourceCols(post, t)[n] = s
        /\ s \in DOMAIN ToSpannerCols(post, u)
        /\ ToSpannerCols(post, u)[s] = n
        /\ c \notin DOMAIN ToSourceCols(post, t)

C3_RenameColumn ==
    \A t \in Tables : \A c \in ColNamePool, n \in ColNamePool :
        (IsColumn(conv, t, c) /\ IsNewName(conv, t, n)) =>
            C3_RenamePost(conv, renameColumn(conv, n, t, c, SrcTableOf(conv, t)), t, c, n)

\* Column a has been renamed to c: c stands first, is keyed or typed as a was,
\* and is linked to the source column a.
C3_Renamed ==
    \E t \in Tables :
        /\ IsColumn(conv, t, "c") /\ ~IsColumn(conv, t, "a")
        /\ conv.SpSchema[t].ColNames[1] = "c"
        /\ "c" \in PkCols(conv, t)
        /\ Get(ToSourceCols(conv, t), "c", "") = "a"
        /\ Get(ToSpannerCols(conv, SrcTableOf(conv, t)), "a", "") = "c"

----------------------------------------------------------------------------
\* C4: rename is idempotent: after a request that renames x to y, a request
\* whose entry for y has Rename = y leaves the whole model as it is.
C4_RenameIdempotent ==
    \A t \in Tables : \A x \in ColNamePool, y \in ColNamePool :
        LET first == updateTableSchema(conv, driver, t,
                                       One(x, [NoChange EXCEPT !.Rename = y])).cv
            second == updateTableSchema(first, driver, t,
                                        One(y, [NoChange EXCEPT !.Rename = y])).cv
        IN  second = first

\* Column b has been renamed to c.
C4_Renamed ==
    \E t \in Tables :
        /\ IsColumn(conv, t, "c") /\ ~IsColumn(conv, t, "b")
        /\ Get(ToSourceCols(conv, t), "c", "") = "b"
        /\ Get(ToSpannerCols(conv, SrcTableOf(conv, t)), "b", "") = "c"

----------------------------------------------------------------------------
\* C5: every edit operation is idempotent: for remove, primary-key toggle ADDED
\* and REMOVED, retype, and not-null toggle ADDED and REMOVED, and for each
\* column, the same one-column request sent twice leaves the model the first
\* one left; the primary-key list after two ADDED is the list after one.
IdempotentChanges ==
    {[NoChange EXCEPT !.Removed = TRUE]}
    \cup {[NoChange EXCEPT !.PK = k] : k \in Toggles}
    \cup {[NoChange EXCEPT !.NotNull = k] : k \in Toggles}
    \cup {[NoChange EXCEPT !.ToType = f] : f \in Families}

C5_EditsIdempotent ==
    \A t \in Tables : \A c \in ColNamePool : \A v \in IdempotentChanges :
        IsColumn(conv, t, c) =>
            LET once == updateTableSchema(conv, driver, t, One(c, v)).cv
                twice == updateTableSchema(once, driver, t, One(c, v)).cv
            IN  twice = once

----------------------------------------------------------------------------
\* C6: a table has at most one primary-key scheme: no table has both a primary
\* key column the user chose and a synthetic key that ConvertSQLRow still
\* appends to its rows.

\* ConvertSQLRow's test "if aux, ok := conv.SyntheticPKeys[spTable]; ok".
appendsSyntheticKey(cv, spTable) == spTable \in DOMAIN cv.SyntheticPKeys

C6_OneKeyScheme ==
    \A t \in Tables :
        appendsSyntheticKey(conv, t) => PkCols(conv, t) \subseteq {conv.SyntheticPKeys[t].Col}

----------------------------------------------------------------------------
\* The source column a target column is linked to (the zero column when the
\* link does not resolve).
SrcColumnOf(cv, table, c) ==
    Get(Get(cv.SrcSchema, SrcTableOf(cv, table), ZeroSrcTable).ColDefs,
        Get(ToSourceCols(cv, table), c, ""), ZeroSrcColumn)

IsLinked(cv, table, c) ==
    Get(ToSourceCols(cv, table), c, "")
        \in DOMAIN Get(cv.SrcSchema, SrcTableOf(cv, table), ZeroSrcTable).ColDefs

\* The model as schema conversion built it.
Fresh == ProcessInfoSchema(conv.SrcSchema)

\* The type a retype of column c to family f leaves in the model cv.
RetypedTo(cv, t, c, f) ==
    SpTable(updateType(cv, driver, f, t, c, SrcTableOf(cv, t)).cv, t).ColDefs[c].T

\* C7: retype is computed from the original source column only: whatever
\* retypes (and other edits) came before, the type a retype to family f leaves
\* is the type a single retype to f leaves on the freshly built model.
C7_RetypeFromSource ==
    \A t \in Tables : \A c \in DOMAIN SpTable(conv, t).ColDefs : \A f \in Families :
        LET c0 == IF IsLinked(conv, t, c)
                  THEN ToSpannerCols(Fresh, SrcTableOf(conv, t))[Get(ToSourceCols(conv, t), c, "")]
                  ELSE c
        IN  (IsLinked(conv, t, c)
                \/ (c \in DOMAIN SpTable(Fresh, t).ColDefs /\ ~IsLinked(Fresh, t, c)))
            => RetypedTo(conv, t, c, f) = RetypedTo(Fresh, t, c0, f)

\* The int8 column b has been retyped to STRING.
C7_Retyped ==
    \E t \in Tables :
        /\ IsColumn(conv, t, "b") /\ Get(ToSourceCols(conv, t), "b", "") = "b"
        /\ SrcColumnOf(conv, t, "b").Type.Name = "int8"
        /\ conv.SpSchema[t].ColDefs["b"].T = StringMax

----------------------------------------------------------------------------
\* C8: retype re-derives the issues: after updateType of a column to family f
\* the issue list of its source column is the list the Type Mapper returns for
\* f followed by the family-independent issues, and nothing of an earlier
\* choice is retained.
C8_IssuesRederived ==
    \A t \in Tables : \A c \in DOMAIN SpTable(conv, t).ColDefs : \A f \in Families :
        IsLinked(conv, t, c) =>
            LET srcCol == SrcColumnOf(conv, t, c)
                post == updateType(conv, driver, f, t, c, SrcTableOf(conv, t)).cv
            IN  Get(IssuesOf(post, SrcTableOf(conv, t)), srcCol.Name, <<>>)
                    = withFamilyIndependentIssues(srcCol,
                        toSpannerType(driver, srcCol.Type.Name, f, srcCol.Type.Mods).issues)

----------------------------------------------------------------------------
\* C9: when the retype step of a column's edit cannot be completed (the driver
\* is not supported, or the column has no resolvable source counterpart) the
\* request is answered as failed and none of that column's edits is applied.
C9_FailedEditAtomic ==
    \A t \in Tables : \A c \in ColNamePool : \A v \in UpdateColValues :
        (~v.Removed /\ v.ToType # "" /\ (~DriverSupported(driver) \/ ~IsLinked(conv, t, c)))
        => LET r == updateTableSchema(conv, driver, t, One(c, v))
           IN  r.status # StatusOK /\ r.cv = conv

----------------------------------------------------------------------------
\* C10: within one column's record the operations are applied in the order
\* remove, rename, primary-key toggle, retype, not-null toggle: with Removed set
\* none of the other four is applied, and after a rename the primary-key
\* toggle, the retype and the not-null toggle act on the new name.
OrderValues ==
    [Removed : {FALSE}, Rename : {"", "c"}, PK : {""} \cup Toggles,
     NotNull : {""} \cup Toggles, ToType : {"", "STRING"}]

C10_ActsOnNewName(pre, after, t, c, v) ==
    LET n == v.Rename
        srcCol == SrcColumnOf(pre, t, c)
    IN  /\ c \notin DOMAIN after.ColDefs
        /\ v.PK = "ADDED" => after.Pks[Len(after.Pks)] = [Col |-> n, Desc |-> FALSE]
        /\ v.PK = "REMOVED" =>
                \A mid \in {SpTable(renameColumn(pre, n, t, c, SrcTableOf(pre, t)), t).Pks} :
                    after.Pks = IF IndexOfPk(mid, n) > 0
                                THEN removePk(mid, IndexOfPk(mid, n))
                                ELSE mid
        /\ v.ToType # "" =>
                /\ n \in DOMAIN after.ColDefs
                /\ after.ColDefs[n].T =
                        finalType(srcCol, toSpannerType(driver, srcCol.Type.Name,
                                                        v.ToType, srcCol.Type.Mods).ty)
        /\ v.NotNull # "" =>
                /\ n \in DOMAIN after.ColDefs
                /\ after.ColDefs[n].NotNull = (v.NotNull = "ADDED")

C10_FixedOrder ==
    \A t \in Tables : \A c \in ColNamePool :
        \A removed \in {removeColumn(conv, t, c, SrcTableOf(conv, t))} :
            \A v \in OrderValues :
                /\ updateColsLoop(conv, driver, t, One(c, [v EXCEPT !.Removed = TRUE])).cv
                        = removed
                /\ (v.Rename # "" /\ v.Rename # c) =>
                        \A after \in {SpTable(updateColsLoop(conv, driver, t, One(c, v)).cv, t)} :
                            C10_ActsOnNewName(conv, after, t, c, v)

\* One record has renamed b to c, made c a key column, retyped it to STRING and
\* set its not-null flag.
C10_AllAtOnce ==
    \E t \in Tables :
        /\ steps = 1
        /\ IsColumn(conv, t, "c") /\ ~IsColumn(conv, t, "b")
        /\ Get(ToSourceCols(conv, t), "c", "") = "b"
        /\ conv.SpSchema[t].ColDefs["c"].T.Name = "STRING"
        /\ conv.SpSchema[t].ColDefs["c"].NotNull
        /\ conv.SpSchema[t].Pks[Len(conv.SpSchema[t].Pks)].Col = "c"

----------------------------------------------------------------------------
(* Interleaving: checkPrimaryKeyPrefix and checkForInterleavedTables of      *)
(* web.go.                                                                   *)

Fk(name, cols, refTable, refCols) ==
    [Name |-> name, Columns |-> cols, ReferTable |-> refTable, ReferColumns |-> refCols]

IntCol(name) == SrcCol(name, "int8", <<>>, <<>>, TRUE, FALSE)

\* p(a primary key, b); s(a, b) without primary key and with a foreign key to a
\* table x that is not converted; c(a, b, primary key (a, b)) with four foreign
\* keys: c(b) -> p(b), c(a) -> s(a), c(a) -> p(a) twice.
InterleaveDatabase ==
    [p |-> [Name |-> "p", ColNames |-> <<"a", "b">>,
            ColDefs |-> [a |-> IntCol("a"), b |-> IntCol("b")],
            PrimaryKeys |-> <<"a">>,
            ForeignKeys |-> <<>>],
     s |-> [Name |-> "s", ColNames |-> <<"a", "b">>,
            ColDefs |-> [a |-> IntCol("a"), b |-> IntCol("b")],
            PrimaryKeys |-> <<>>,
            ForeignKeys |-> <<Fk("fk5", <<"a">>, "x", <<"a">>)>>],
     c |-> [Name |-> "c", ColNames |-> <<"a", "b">>,
            ColDefs |-> [a |-> IntCol("a"), b |-> IntCol("b")],
            PrimaryKeys |-> <<"a", "b">>,
            ForeignKeys |-> <<Fk("fk1", <<"b">>, "p", <<"b">>),
                              Fk("fk2", <<"a">>, "s", <<"a">>),
                              Fk("fk3", <<"a">>, "p", <<"a">>),
                              Fk("fk4", <<"a">>, "p", <<"a">>)>>]]

\* The test of one position without the comparison with the child's key column.
prefixHoldsAtIgnoringChild(childPks, parentPks, fk, i) ==
    ~ \/ i > Len(fk.ReferColumns)
      \/ parentPks[i].Col # fk.ReferColumns[i]
      \/ fk.Columns[i] # fk.ReferColumns[i]

\* One position of the loop of checkPrimaryKeyPrefix: the test that makes it
\* return false, negated.  i counts from 1.
prefixHoldsAt(childPks, parentPks, fk, i) ==
    ~ \/ i > Len(fk.ReferColumns)
      \/ parentPks[i].Col # fk.ReferColumns[i]
      \/ parentPks[i].Col # childPks[i].Col
      \/ fk.Columns[i] # fk.ReferColumns[i]

prefixOf(childPks, parentPks, fk) ==
    IF Len(childPks) >= Len(parentPks)
    THEN \A i \in 1..Len(parentPks) : prefixHoldsAt(childPks, parentPks, fk, i)
    ELSE FALSE

checkPrimaryKeyPrefix(cv, table, refTable, fk) ==
    prefixOf(SpTable(cv, table).Pks, SpTable(cv, refTable).Pks, fk)

removeFk(slice, i) == SubSeq(slice, 1, i - 1) \o SubSeq(slice, i + 1, Len(slice))

\* The test of one foreign key without the look-up of the referenced table in
\* SyntheticPKeys.
fkAcceptedIgnoringSynthetic(cv, table, i) ==
    checkPrimaryKeyPrefix(cv, table, SpTable(cv, table).Fks[i].ReferTable,
                          SpTable(cv, table).Fks[i])

\* The loop of checkForInterleavedTables reaches "ok == true" at index i.
fkAccepted(cv, table, i) ==
    /\ SpTable(cv, table).Fks[i].ReferTable \notin DOMAIN cv.SyntheticPKeys
    /\ checkPrimaryKeyPrefix(cv, table, SpTable(cv, table).Fks[i].ReferTable,
                             SpTable(cv, table).Fks[i])

\* The loop without its break: the last accepted index.
lastAcceptedFk(cv, table) ==
    IF \E i \in 1..Len(SpTable(cv, table).Fks) : fkAccepted(cv, table, i)
    THEN CHOOSE i \in 1..Len(SpTable(cv, table).Fks) :
            /\ fkAccepted(cv, table, i)
            /\ \A j \in (i + 1)..Len(SpTable(cv, table).Fks) : ~fkAccepted(cv, table, j)
    ELSE 0

\* The index at which the loop breaks, 0 when it runs to its end.
firstAcceptedFk(cv, table) ==
    IF \E i \in 1..Len(SpTable(cv, table).Fks) : fkAccepted(cv, table, i)
    THEN CHOOSE i \in 1..Len(SpTable(cv, table).Fks) :
            /\ fkAccepted(cv, table, i)
            /\ \A j \in 1..(i - 1) : ~fkAccepted(cv, table, j)
    ELSE 0

\* sp.Parent = refTable; sp.Fks = removeFk(sp.Fks, i)
setParent(cv, table, sp, i) ==
    [cv EXCEPT !.SpSchema =
        Put(cv.SpSchema, table,
            [sp EXCEPT !.Parent = sp.Fks[i].ReferTable, !.Fks = removeFk(sp.Fks, i)])]

\* The loop over the foreign keys and the test after it; i is the index the
\* loop breaks at.  Yields [cv, issues].
interleaveAt(cv, table, sp, i) ==
    IF i = 0
    THEN [cv |-> cv,
          issues |-> [Possible |-> FALSE, Parent |-> "", Comment |-> "No valid prefix"]]
    ELSE [cv |-> setParent(cv, table, sp, i),
          issues |-> IF sp.Fks[i].ReferTable = ""
                     THEN [Possible |-> FALSE, Parent |-> "", Comment |-> "No valid prefix"]
                     ELSE [Possible |-> TRUE, Parent |-> sp.Fks[i].ReferTable,
                           Comment |-> ""]]

\* The handler without the look-up of the table in SyntheticPKeys.
checkForInterleavedTablesAnyTable(cv, table) ==
    [status |-> IF table = "" THEN StatusBadRequest ELSE StatusOK]
    @@ interleaveAt(cv, table, SpTable(cv, table), firstAcceptedFk(cv, table))

\* The handler for a converted schema: [cv, issues, status].  An empty table
\* name writes 400 and the handler goes on.
checkForInterleavedTables(cv, table) ==
    [status |-> IF table = "" THEN StatusBadRequest ELSE StatusOK]
    @@ (IF table \in DOMAIN cv.SyntheticPKeys
        THEN [cv |-> cv,
              issues |-> [Possible |-> FALSE, Parent |-> "", Comment |-> "Has synthetic pk"]]
        ELSE interleaveAt(cv, table, SpTable(cv, table), firstAcceptedFk(cv, table)))

\* The table names an interleave check may name: the tables, the empty name and
\* a name no table has.
TableNamePool == {"p", "s", "c", "", "x"}

\* The records of the edit requests of an interleaving session.
KeyValues ==
    {[NoChange EXCEPT !.Removed = TRUE], [NoChange EXCEPT !.Rename = "k"]}
    \cup {[NoChange EXCEPT !.PK = k] : k \in Toggles}

KeyRequests == {<<Entry(c, v)>> : c \in {"a", "b"}, v \in KeyValues}

InitInterleave ==
    /\ conv = ProcessInfoSchema(InterleaveDatabase)
    /\ driver = "postgres"
    /\ resp = StatusOK
    /\ steps = 0
    /\ tableInterleaveIssues = NoInterleaveStatus
    /\ DataIdle

InterleaveServed(r) ==
    /\ conv' = r.cv
    /\ tableInterleaveIssues' = r.issues
    /\ resp' = r.status
    /\ steps' = steps + 1
    /\ UNCHANGED <<driver, pending, stats, sink>>

\* GET /checkinterleave/table?table=...
CheckForInterleavedTables ==
    \E table \in TableNamePool :
        /\ steps < MaxSteps
        /\ InterleaveServed(checkForInterleavedTables(conv, table))

\* POST /typemap/table?table=... with a request on a key column.
UpdateKeyColumns ==
    \E table \in DOMAIN conv.SpSchema, entries \in KeyRequests :
        /\ steps < MaxSteps
        /\ CanAddPrimaryKeys(updateColsLoop(conv, driver, table, entries).cv)
        /\ Served(updateTableSchema(conv, driver, table, entries))

NextInterleave == CheckForInterleavedTables \/ UpdateKeyColumns

SpecInterleave == InitInterleave /\ [][NextInterleave]_vars

----------------------------------------------------------------------------
\* The foreign keys checkPrimaryKeyPrefix is asked about: up to two local
\* columns and as many referenced columns.
FkColumnLists == {<<>>} \cup {<<x>> : x \in {"a", "b"}}
                    \cup {<<x, y>> : x \in {"a", "b"}, y \in {"a", "b"}}

\* Columns and ReferColumns are filled in pairs: they have the same length.
FkPool ==
    {Fk("fk", pr[1], "p", pr[2]) :
        pr \in {q \in FkColumnLists \X FkColumnLists : Len(q[1]) = Len(q[2])}}

KeyColumns(cv, table) == [i \in 1..Len(SpTable(cv, table).Pks) |-> SpTable(cv, table).Pks[i].Col]

\* The condition C11 states for child key tk, parent key pk and foreign key fk.
C11_Condition(tk, pk, fk) ==
    /\ Len(tk) >= Len(pk)
    /\ \A i \in 1..Len(pk) :
            /\ i <= Len(fk.ReferColumns)
            /\ pk[i] = fk.ReferColumns[i]
            /\ tk[i] = fk.Columns[i]
            /\ fk.Columns[i] = fk.ReferColumns[i]

\* C11: checkPrimaryKeyPrefix(T, P, fk) is true exactly when T's primary key is
\* at least as long as P's and at every position of P's key the parent's key
\* column is fk's referenced column, the child's key column is fk's local
\* column and the two have the same name.
C11_KeyPrefix ==
    \A T \in TableNamePool, P \in TableNamePool : \A fk \in FkPool :
        checkPrimaryKeyPrefix(conv, T, P, fk)
            <=> C11_Condition(KeyColumns(conv, T), KeyColumns(conv, P), fk)

\* The parent's key is (a, b): the foreign key (a, b) -> (a, b) of c passes and
\* the one with the referenced columns (b, a) does not.
C11_TwoColumnParent ==
    /\ KeyColumns(conv, "p") = <<"a", "b">>
    /\ checkPrimaryKeyPrefix(conv, "c", "p", Fk("fk", <<"a", "b">>, "p", <<"a", "b">>))
    /\ ~checkPrimaryKeyPrefix(conv, "c", "p", Fk("fk", <<"a", "b">>, "p", <<"b", "a">>))

----------------------------------------------------------------------------
\* C12: in every reachable state every table with a non-empty Parent has a
\* primary key whose first columns are the parent's primary-key columns, in the
\* same order.
C12_ParentKeepsPrefix ==
    \A t \in Tables :
        SpTable(conv, t).Parent # "" =>
            /\ Len(KeyColumns(conv, t)) >= Len(KeyColumns(conv, SpTable(conv, t).Parent))
            /\ SubSeq(KeyColumns(conv, t), 1, Len(KeyColumns(conv, SpTable(conv, t).Parent)))
                    = KeyColumns(conv, SpTable(conv, t).Parent)

----------------------------------------------------------------------------
\* C13: checkForInterleavedTables records no Parent for a table that has a
\* synthetic primary key, and the parent it selects never has one, also when
\* the foreign key to such a table passes the key-prefix check.
C13_NoSyntheticInterleave ==
    \A table \in TableNamePool :
        \A r \in {checkForInterleavedTables(conv, table)} :
            /\ table \in DOMAIN conv.SyntheticPKeys =>
                    /\ r.cv = conv
                    /\ ~r.issues.Possible
                    /\ r.issues.Parent = ""
            /\ r.issues.Parent \notin DOMAIN conv.SyntheticPKeys
            /\ r.cv # conv => SpTable(r.cv, table).Parent \notin DOMAIN conv.SyntheticPKeys

\* c has been interleaved in p although its foreign key to s, a table with a
\* synthetic key entry, comes first and passes the key-prefix check.
C13_SyntheticSkipped ==
    /\ "s" \in DOMAIN conv.SyntheticPKeys
    /\ SpTable(conv, "c").Parent = "p"
    /\ tableInterleaveIssues.Parent = "p"
    /\ Len(SpTable(conv, "c").Fks) >= 2
    /\ SpTable(conv, "c").Fks[2].ReferTable = "s"
    /\ checkPrimaryKeyPrefix(conv, "c", "s", SpTable(conv, "c").Fks[2])

----------------------------------------------------------------------------
\* The i-th foreign key of the table satisfies the key-prefix condition.
PassesPrefix(cv, table, i) ==
    C11_Condition(KeyColumns(cv, table),
                  KeyColumns(cv, SpTable(cv, table).Fks[i].ReferTable),
                  SpTable(cv, table).Fks[i])

\* What C14 requires of the handler's result r when the i-th foreign key is the
\* one to choose.
C14_Chosen(cv, table, r, i) ==
    /\ SpTable(r.cv, table).Parent = SpTable(cv, table).Fks[i].ReferTable
    /\ SpTable(r.cv, table).Fks = removeFk(SpTable(cv, table).Fks, i)
    /\ r.issues.Parent = SpTable(cv, table).Fks[i].ReferTable
    /\ \A t \in DOMAIN cv.SpSchema \ {table} : r.cv.SpSchema[t] = cv.SpSchema[t]

\* C14 as stated: when at least one foreign key of the table satisfies the
\* key-prefix check, checkForInterleavedTables chooses the first such foreign
\* key, records its referenced table as Parent and removes exactly that foreign
\* key from Fks.
C14_FirstPassingFk ==
    \A table \in TableNamePool :
        \A i \in 1..Len(SpTable(conv, table).Fks) :
            (PassesPrefix(conv, table, i)
                /\ \A j \in 1..(i - 1) : ~PassesPrefix(conv, table, j))
            => C14_Chosen(conv, table, checkForInterleavedTables(conv, table), i)

\* The i-th foreign key qualifies: neither the table nor the referenced table
\* has a synthetic primary key, and the key-prefix condition holds.
Qualifies(cv, table, i) ==
    /\ table \notin DOMAIN cv.SyntheticPKeys
    /\ SpTable(cv, table).Fks[i].ReferTable \notin DOMAIN cv.SyntheticPKeys
    /\ PassesPrefix(cv, table, i)

\* C14, amended: when the table has no synthetic primary key,
\* checkForInterleavedTables chooses the first foreign key in list order that
\* satisfies the key-prefix check and refers to a table without synthetic
\* primary key, records its referenced table as Parent, removes exactly that
\* foreign key from Fks and leaves the others in their order.
C14_FirstQualifyingFk ==
    \A table \in TableNamePool :
        \A i \in 1..Len(SpTable(conv, table).Fks) :
            (Qualifies(conv, table, i)
                /\ \A j \in 1..(i - 1) : ~Qualifies(conv, table, j))
            => C14_Chosen(conv, table, checkForInterleavedTables(conv, table), i)

\* c has been interleaved through fk3, the first of its two foreign keys that
\* qualify: fk1, fk2 and fk4 remain, in this order.
C14_ThirdOfFour ==
    /\ SpTable(conv, "c").Parent = "p"
    /\ [i \in 1..Len(SpTable(conv, "c").Fks) |-> SpTable(conv, "c").Fks[i].Name]
            = <<"fk1", "fk2", "fk4">>
    /\ tableInterleaveIssues = [Possible |-> TRUE, Parent |-> "p", Comment |-> ""]

----------------------------------------------------------------------------
\* C15: when the table has a synthetic primary key, or none of its foreign keys
\* satisfies the key-prefix check, checkForInterleavedTables answers
\* Possible = false with the reason "Has synthetic pk", respectively "No valid
\* prefix", and leaves the model (Parent and Fks included) unchanged.
C15_Ineligible ==
    \A table \in TableNamePool :
        \A r \in {checkForInterleavedTables(conv, table)} :
            /\ table \in DOMAIN conv.SyntheticPKeys =>
                    /\ r.issues = [Possible |-> FALSE, Parent |-> "",
                                   Comment |-> "Has synthetic pk"]
                    /\ r.cv = conv
            /\ (table \notin DOMAIN conv.SyntheticPKeys
                    /\ \A i \in 1..Len(SpTable(conv, table).Fks) :
                            ~PassesPrefix(conv, table, i)) =>
                    /\ r.issues = [Possible |-> FALSE, Parent |-> "",
                                   Comment |-> "No valid prefix"]
                    /\ r.cv = conv

\* A check has been answered "No valid prefix" after c's key lost its first
\* column: none of c's four foreign keys passes, and c has no Parent.
C15_NoValidPrefix ==
    /\ tableInterleaveIssues = [Possible |-> FALSE, Parent |-> "", Comment |-> "No valid prefix"]
    /\ KeyColumns(conv, "c") = <<"b">>
    /\ Len(SpTable(conv, "c").Fks) = 4
    /\ SpTable(conv, "c").Parent = ""
    /\ \A i \in 1..4 : ~PassesPrefix(conv, "c", i)

----------------------------------------------------------------------------
(* Data conversion: ProcessSQLData and ConvertSQLRow of the PostgreSQL       *)
(* information-schema package.  A value scanned from a row is a record       *)
(* tagged with the Go type database/sql delivers it as; Nil is SQL NULL.     *)

Nil == [kind |-> "nil"]

BoolVal(b) == [kind |-> "bool", b |-> b]

Int64Val(n) == [kind |-> "int64", n |-> n]

StringVal(str) == [kind |-> "string", s |-> str]

BytesVal(str) == [kind |-> "bytes", bytes |-> str]

\* A float64 with one decimal digit, given in tenths.
Float64Val(tenths) == [kind |-> "float64", tenths |-> tenths]

\* A time.Time in UTC.
TimeVal(date, clock) == [kind |-> "time", date |-> date, clock |-> clock]

\* A civil.Date.
DateVal(date) == [kind |-> "date", date |-> date]

Converted(v) == [err |-> FALSE, v |-> v]

Failed == [err |-> TRUE, v |-> Nil]

\* strconv-style parsing and formatting, over the literals of the model.
convBool(str) ==
    CASE str = "true" -> Converted(BoolVal(TRUE))
      [] str = "false" -> Converted(BoolVal(FALSE))
      [] OTHER -> Failed

convInt64(str) ==
    CASE str = "7" -> Converted(Int64Val(7))
      [] str = "0" -> Converted(Int64Val(0))
      [] OTHER -> Failed

FormatBool(b) == IF b THEN "true" ELSE "false"

FormatInt(n) ==
    CASE n = 0 -> "0"
      [] n = 7 -> "7"
      [] OTHER -> "int64"

convFloat64(str) ==
    CASE str = "7.5" -> Converted(Float64Val(75))
      [] str = "7" -> Converted(Float64Val(70))
      [] str = "0" -> Converted(Float64Val(0))
      [] OTHER -> Failed

convDate(str) ==
    CASE str = "2020-01-02" -> Converted(DateVal("2020-01-02"))
      [] OTHER -> Failed

convTimestamp(srcTypeName, str) ==
    CASE str = "2020-01-02 03:04:05+00" -> Converted(TimeVal("2020-01-02", "03:04:05"))
      [] OTHER -> Failed

\* strconv.FormatFloat(v, 'g', -1, 64)
FormatFloat(tenths) ==
    CASE tenths = 75 -> "7.5"
      [] tenths = 70 -> "7"
      [] tenths = 0 -> "0"
      [] OTHER -> "float64"

\* int64(v) of a float64: the fraction is dropped.
Truncated(tenths) == IF tenths >= 0 THEN tenths \div 10 ELSE 0 - ((0 - tenths) \div 10)

\* time.Time.String
TimeString(val) == val.date \o " " \o val.clock \o " +0000 UTC"

\* As cvtSQLScalar, a string being taken for BYTES as well.
cvtSQLScalarLenient(srcCd, spCd, val) ==
    CASE spCd.T.Name = "BOOL" /\ val.kind = "bool" -> Converted(val)
      [] spCd.T.Name = "BOOL" /\ val.kind = "string" -> convBool(val.s)
      [] spCd.T.Name = "BYTES" /\ val.kind = "bytes" -> Converted(val)
      [] spCd.T.Name = "BYTES" /\ val.kind = "string" -> Converted(BytesVal(val.s))
      [] spCd.T.Name = "DATE" /\ val.kind = "string" -> convDate(val.s)
      [] spCd.T.Name = "DATE" /\ val.kind = "time" -> Converted(DateVal(val.date))
      [] spCd.T.Name = "INT64" /\ val.kind = "bytes" -> convInt64(val.bytes)
      [] spCd.T.Name = "INT64" /\ val.kind = "int64" -> Converted(val)
      [] spCd.T.Name = "INT64" /\ val.kind = "float64" -> Converted(Int64Val(Truncated(val.tenths)))
      [] spCd.T.Name = "INT64" /\ val.kind = "string" -> convInt64(val.s)
      [] spCd.T.Name = "FLOAT64" /\ val.kind = "bytes" -> convFloat64(val.bytes)
      [] spCd.T.Name = "FLOAT64" /\ val.kind = "int64" -> Converted(Float64Val(val.n * 10))
      [] spCd.T.Name = "FLOAT64" /\ val.kind = "float64" -> Converted(val)
      [] spCd.T.Name = "FLOAT64" /\ val.kind = "string" -> convFloat64(val.s)
      [] spCd.T.Name = "STRING" /\ val.kind = "bool" -> Converted(StringVal(FormatBool(val.b)))
      [] spCd.T.Name = "STRING" /\ val.kind = "bytes" -> Converted(StringVal(val.bytes))
      [] spCd.T.Name = "STRING" /\ val.kind = "int64" -> Converted(StringVal(FormatInt(val.n)))
      [] spCd.T.Name = "STRING" /\ val.kind = "float64" ->
            Converted(StringVal(FormatFloat(val.tenths)))
      [] spCd.T.Name = "STRING" /\ val.kind = "string" -> Converted(val)
      [] spCd.T.Name = "STRING" /\ val.kind = "time" -> Converted(StringVal(TimeString(val)))
      [] spCd.T.Name = "TIMESTAMP" /\ val.kind = "string" ->
            convTimestamp(srcCd.Type.Name, val.s)
      [] spCd.T.Name = "TIMESTAMP" /\ val.kind = "time" -> Converted(val)
      [] OTHER -> Failed

\* cvtSQLScalar
cvtSQLScalar(srcCd, spCd, val) ==
    CASE spCd.T.Name = "BOOL" /\ val.kind = "bool" -> Converted(val)
      [] spCd.T.Name = "BOOL" /\ val.kind = "string" -> convBool(val.s)
      [] spCd.T.Name = "BYTES" /\ val.kind = "bytes" -> Converted(val)
      [] spCd.T.Name = "DATE" /\ val.kind = "string" -> convDate(val.s)
      [] spCd.T.Name = "DATE" /\ val.kind = "time" -> Converted(DateVal(val.date))
      [] spCd.T.Name = "INT64" /\ val.kind = "bytes" -> convInt64(val.bytes)
      [] spCd.T.Name = "INT64" /\ val.kind = "int64" -> Converted(val)
      [] spCd.T.Name = "INT64" /\ val.kind = "float64" -> Converted(Int64Val(Truncated(val.tenths)))
      [] spCd.T.Name = "INT64" /\ val.kind = "string" -> convInt64(val.s)
      [] spCd.T.Name = "FLOAT64" /\ val.kind = "bytes" -> convFloat64(val.bytes)
      [] spCd.T.Name = "FLOAT64" /\ val.kind = "int64" -> Converted(Float64Val(val.n * 10))
      [] spCd.T.Name = "FLOAT64" /\ val.kind = "float64" -> Converted(val)
      [] spCd.T.Name = "FLOAT64" /\ val.kind = "string" -> convFloat64(val.s)
      [] spCd.T.Name = "STRING" /\ val.kind = "bool" -> Converted(StringVal(FormatBool(val.b)))
      [] spCd.T.Name = "STRING" /\ val.kind = "bytes" -> Converted(StringVal(val.bytes))
      [] spCd.T.Name = "STRING" /\ val.kind = "int64" -> Converted(StringVal(FormatInt(val.n)))
      [] spCd.T.Name = "STRING" /\ val.kind = "float64" ->
            Converted(StringVal(FormatFloat(val.tenths)))
      [] spCd.T.Name = "STRING" /\ val.kind = "string" -> Converted(val)
      [] spCd.T.Name = "STRING" /\ val.kind = "time" -> Converted(StringVal(TimeString(val)))
      [] spCd.T.Name = "TIMESTAMP" /\ val.kind = "string" ->
            convTimestamp(srcCd.Type.Name, val.s)
      [] spCd.T.Name = "TIMESTAMP" /\ val.kind = "time" -> Converted(val)
      [] OTHER -> Failed

\* cvtSQLArray: anything but []byte is refused; no array encoding is among the
\* []byte values of the model, so that convArray fails on them.
cvtSQLArray(srcCd, spCd, val) == Failed

cvtCell(srcCd, spCd, val) ==
    IF spCd.T.IsArray THEN cvtSQLArray(srcCd, spCd, val) ELSE cvtSQLScalar(srcCd, spCd, val)

\* The bits of a 64-bit word are the set of the positions that hold 1, position
\* 0 being the least significant.  A sequence value of the model is below 2^31,
\* so that its bits 31 to 63 are 0.
WordBits == 64

Uint64(n) == {i \in 0..30 : (n \div (2 ^ i)) % 2 = 1}

\* bits.Reverse64
Reverse64(word) == {(WordBits - 1) - i : i \in word}

\* The loop of ConvertSQLRow returns an error at position i.
cellFails(srcSchema, spSchema, srcCols, spCols, srcVals, i) ==
    \/ srcCols[i] \notin DOMAIN srcSchema.ColDefs
    \/ spCols[i] \notin DOMAIN spSchema.ColDefs
    \/ /\ srcVals[i] # Nil
       /\ cvtCell(srcSchema.ColDefs[srcCols[i]], spSchema.ColDefs[spCols[i]], srcVals[i]).err

\* As convertedCells, a NULL cell contributing its column and the value NULL.
convertedCellsWithNulls(srcSchema, spSchema, srcCols, spCols, srcVals) ==
    [cs |-> srcCols,
     vs |-> [i \in 1..Len(srcCols) |->
                IF srcVals[i] = Nil
                THEN Nil
                ELSE cvtCell(srcSchema.ColDefs[srcCols[i]],
                             spSchema.ColDefs[spCols[i]], srcVals[i]).v]]

\* cs and vs after the loop, when no position fails.
convertedCells(srcSchema, spSchema, srcCols, spCols, srcVals) ==
    LET cells[i \in 0..Len(srcCols)] ==
            IF i = 0
            THEN [cs |-> <<>>, vs |-> <<>>]
            ELSE IF srcVals[i] = Nil
                 THEN cells[i - 1]
                 ELSE [cs |-> Append(cells[i - 1].cs, srcCols[i]),
                       vs |-> Append(cells[i - 1].vs,
                                cvtCell(srcSchema.ColDefs[srcCols[i]],
                                        spSchema.ColDefs[spCols[i]], srcVals[i]).v)]
    IN  cells[Len(srcCols)]

\* The counter left as it was.
keepSequence(aux) == aux

\* aux.Sequence++
nextSequence(aux) == [aux EXCEPT !.Sequence = aux.Sequence + 1]

\* As withSyntheticKey, the synthetic column also appended to the columns of
\* the target table.
withSyntheticKeyInSchema(cv, spTable, cells) ==
    IF spTable \in DOMAIN cv.SyntheticPKeys
    THEN [cs |-> Append(cells.cs, cv.SyntheticPKeys[spTable].Col),
          vs |-> Append(cells.vs,
                    [kind |-> "int64bits",
                     bits |-> Reverse64(Uint64(cv.SyntheticPKeys[spTable].Sequence))]),
          err |-> FALSE,
          cv |-> [cv EXCEPT !.SyntheticPKeys[spTable] =
                                nextSequence(cv.SyntheticPKeys[spTable]),
                            !.SpSchema[spTable].ColNames =
                                Append(cv.SpSchema[spTable].ColNames,
                                       cv.SyntheticPKeys[spTable].Col)]]
    ELSE [cs |-> cells.cs, vs |-> cells.vs, err |-> FALSE, cv |-> cv]

\* The end of ConvertSQLRow: the synthetic key, if the table has one.
withSyntheticKey(cv, spTable, cells) ==
    IF spTable \in DOMAIN cv.SyntheticPKeys
    THEN [cs |-> Append(cells.cs, cv.SyntheticPKeys[spTable].Col),
          vs |-> Append(cells.vs,
                    [kind |-> "int64bits",
                     bits |-> Reverse64(Uint64(cv.SyntheticPKeys[spTable].Sequence))]),
          err |-> FALSE,
          cv |-> [cv EXCEPT !.SyntheticPKeys[spTable] =
                                nextSequence(cv.SyntheticPKeys[spTable])]]
    ELSE [cs |-> cells.cs, vs |-> cells.vs, err |-> FALSE, cv |-> cv]

\* As ConvertSQLRow, a row that fails taking a sequence value as well.
ConvertSQLRowEager(cv, srcTable, srcCols, srcSchema, spTable, spCols, spSchema, srcVals) ==
    IF \E i \in 1..Len(srcCols) :
            cellFails(srcSchema, spSchema, srcCols, spCols, srcVals, i)
    THEN [cs |-> <<>>, vs |-> <<>>, err |-> TRUE,
          cv |-> withSyntheticKey(cv, spTable, [cs |-> <<>>, vs |-> <<>>]).cv]
    ELSE withSyntheticKey(cv, spTable,
            convertedCells(srcSchema, spSchema, srcCols, spCols, srcVals))

\* Yields [cs, vs, err, cv], cv being conv as the call leaves it.
ConvertSQLRow(cv, srcTable, srcCols, srcSchema, spTable, spCols, spSchema, srcVals) ==
    IF \E i \in 1..Len(srcCols) :
            cellFails(srcSchema, spSchema, srcCols, spCols, srcVals, i)
    THEN [cs |-> <<>>, vs |-> <<>>, err |-> TRUE, cv |-> cv]
    ELSE withSyntheticKey(cv, spTable,
            convertedCells(srcSchema, spSchema, srcCols, spCols, srcVals))

\* fmt.Sprintf("%v", val) of a []byte: the bytes in decimal.
FormatBytes(str) ==
    CASE str = "7" -> "[55]"
      [] str = "x" -> "[120]"
      [] OTHER -> "[]"

\* fmt.Sprintf("%v", val) for the values of the model.
toString(val) ==
    CASE val.kind = "nil" -> "NULL"
      [] val.kind = "bool" -> FormatBool(val.b)
      [] val.kind = "int64" -> FormatInt(val.n)
      [] val.kind = "bytes" -> FormatBytes(val.bytes)
      [] val.kind = "float64" -> FormatFloat(val.tenths)
      [] val.kind = "time" -> TimeString(val)
      [] OTHER -> val.s

valsToStrings(vals) == [i \in 1..Len(vals) |-> toString(vals[i])]

\* conv.Unexpected
Unexpected(st) == [st EXCEPT !.Unexpected = st.Unexpected + 1]

\* conv.StatsAddBadRow in data mode
StatsAddBadRow(st, srcTable) ==
    [st EXCEPT !.BadRows = Put(st.BadRows, srcTable, Get(st.BadRows, srcTable, 0) + 1)]

\* conv.CollectBadRow
CollectBadRow(sk, srcTable, srcCols, vals) ==
    [sk EXCEPT !.badRows = Append(sk.badRows,
                    [srcTable |-> srcTable, srcCols |-> srcCols, vals |-> vals])]

\* conv.WriteRow
WriteRow(sk, srcTable, spTable, cols, vals) ==
    [sk EXCEPT !.rows = Append(sk.rows,
                    [srcTable |-> srcTable, spTable |-> spTable, cols |-> cols, vals |-> vals])]

\* internal.GetSpannerTable and internal.GetSpannerCols
GetSpannerTable(cv, srcTable) == Get(cv.ToSpanner, srcTable, ZeroNameAndCols).Name

GetSpannerCols(cv, srcTable, srcCols) ==
    [i \in 1..Len(srcCols) |-> Get(ToSpannerCols(cv, srcTable), srcCols[i], "")]

\* err2 == nil, err3 == nil, ok1 and ok2 of ProcessSQLData (rows.Columns of the
\* model never fails).
resolves(cv, srcTable, srcCols) ==
    /\ srcTable \in DOMAIN cv.ToSpanner
    /\ \A i \in 1..Len(srcCols) : srcCols[i] \in DOMAIN ToSpannerCols(cv, srcTable)
    /\ GetSpannerTable(cv, srcTable) \in DOMAIN cv.SpSchema
    /\ srcTable \in DOMAIN cv.SrcSchema

\* A run of ProcessSQLData is [cv, stats, sink]: conv but for its statistics,
\* conv.Stats, and what was handed to WriteRow and CollectBadRow.
Run(cv, st, sk) == [cv |-> cv, stats |-> st, sink |-> sk]

\* db.Query fails for the table.
queryFailed(run) == Run(run.cv, Unexpected(run.stats), run.sink)

\* The columns or the schemas of the table cannot be resolved.
cannotResolve(run, srcTable) ==
    Run(run.cv,
        Unexpected([run.stats EXCEPT !.BadRows =
            Put(run.stats.BadRows, srcTable,
                Get(run.stats.BadRows, srcTable, 0) + Get(run.stats.Rows, srcTable, 0))]),
        run.sink)

\* As scanFailed, the row reported but not counted.
scanFailedUncounted(run, srcTable) == Run(run.cv, Unexpected(run.stats), run.sink)

\* rows.Scan fails for a row of the table.
scanFailed(run, srcTable) ==
    Run(run.cv, StatsAddBadRow(Unexpected(run.stats), srcTable), run.sink)

\* As rowConverted, a failed row handed to the sample without being counted.
rowConvertedUncounted(run, srcTable, srcCols, v, r) ==
    IF r.err
    THEN Run(run.cv, Unexpected(run.stats),
             CollectBadRow(run.sink, srcTable, srcCols, valsToStrings(v)))
    ELSE Run(r.cv, run.stats,
             WriteRow(run.sink, srcTable, GetSpannerTable(run.cv, srcTable), r.cs, r.vs))

\* ConvertSQLRow has returned r for the row v.
rowConverted(run, srcTable, srcCols, v, r) ==
    IF r.err
    THEN Run(run.cv, StatsAddBadRow(Unexpected(run.stats), srcTable),
             CollectBadRow(run.sink, srcTable, srcCols, valsToStrings(v)))
    ELSE Run(r.cv, run.stats,
             WriteRow(run.sink, srcTable, GetSpannerTable(run.cv, srcTable), r.cs, r.vs))

\* The body of the loop over rows.Next() for a row that was scanned as v.
processRow(run, srcTable, srcCols, v) ==
    rowConverted(run, srcTable, srcCols, v,
        ConvertSQLRow(run.cv, srcTable, srcCols, run.cv.SrcSchema[srcTable],
                      GetSpannerTable(run.cv, srcTable),
                      GetSpannerCols(run.cv, srcTable, srcCols),
                      run.cv.SpSchema[GetSpannerTable(run.cv, srcTable)], v))

----------------------------------------------------------------------------
(* Data conversion runs.  pending is the rest of the table list of          *)
(* ProcessSQLData: the head is the table of the current iteration, opened   *)
(* once its query and its schemas were obtained, with left rows to come.    *)

\* t(a bool, b int8) has no primary key, k(a int8 primary key) has one.
DataDatabase ==
    [t |-> [Name |-> "t", ColNames |-> <<"a", "b">>,
            ColDefs |-> [a |-> SrcCol("a", "bool", <<>>, <<>>, FALSE, FALSE),
                         b |-> SrcCol("b", "int8", <<>>, <<>>, FALSE, FALSE)],
            PrimaryKeys |-> <<>>,
            ForeignKeys |-> <<>>],
     k |-> [Name |-> "k", ColNames |-> <<"a">>,
            ColDefs |-> [a |-> SrcCol("a", "int8", <<>>, <<>>, TRUE, FALSE)],
            PrimaryKeys |-> <<"a">>,
            ForeignKeys |-> <<>>]]

\* What rows.Columns yields; u was created after schema conversion.
DataColumns == [t |-> <<"a", "b">>, k |-> <<"a">>, u |-> <<"a">>]

\* The orders getTables may list the tables in.
DataTableLists == {<<"t", "u", "k">>, <<"k", "u", "t">>, <<"u", "t", "k">>}

\* The values a cell of the column may be scanned as.
CellValues(srcTable, col) ==
    IF srcTable = "t" /\ col = "a"
    THEN {Nil, BoolVal(TRUE), StringVal("x")}
    ELSE {Nil, Int64Val(7)}

RowValues(srcTable) ==
    {v \in [1..Len(DataColumns[srcTable]) -> {Nil, BoolVal(TRUE), StringVal("x"), Int64Val(7)}] :
        \A i \in 1..Len(v) : v[i] \in CellValues(srcTable, DataColumns[srcTable][i])}

Queued(srcTable) == [table |-> srcTable, opened |-> FALSE, left |-> MaxRows]

InitData ==
    /\ conv = ProcessInfoSchema(DataDatabase)
    /\ driver = "postgres"
    /\ resp = StatusOK
    /\ steps = 0
    /\ tableInterleaveIssues = NoInterleaveStatus
    /\ \E tables \in DataTableLists :
            pending = [i \in 1..Len(tables) |-> Queued(tables[i])]
    /\ stats = [NoStats EXCEPT !.Rows = [tb \in DOMAIN DataColumns |-> MaxRows]]
    /\ sink = NoSink

ThisRun == Run(conv, stats, sink)

\* The run becomes the state of the program.
Ran(run) ==
    /\ conv' = run.cv
    /\ stats' = run.stats
    /\ sink' = run.sink
    /\ UNCHANGED <<driver, resp, steps, tableInterleaveIssues>>

QueryFails ==
    /\ pending # <<>>
    /\ ~pending[1].opened
    /\ Ran(queryFailed(ThisRun))
    /\ pending' = Tail(pending)

OpenTable ==
    /\ pending # <<>>
    /\ ~pending[1].opened
    /\ IF resolves(conv, pending[1].table, DataColumns[pending[1].table])
       THEN /\ pending' = [pending EXCEPT ![1].opened = TRUE]
            /\ UNCHANGED <<conv, stats, sink, driver, resp, steps, tableInterleaveIssues>>
       ELSE /\ Ran(cannotResolve(ThisRun, pending[1].table))
            /\ pending' = Tail(pending)

RowAvailable ==
    /\ pending # <<>>
    /\ pending[1].opened
    /\ pending[1].left > 0

ScanFails ==
    /\ RowAvailable
    /\ Ran(scanFailed(ThisRun, pending[1].table))
    /\ pending' = [pending EXCEPT ![1].left = pending[1].left - 1]

ProcessRow ==
    /\ RowAvailable
    /\ \E v \in RowValues(pending[1].table) :
            Ran(processRow(ThisRun, pending[1].table, DataColumns[pending[1].table], v))
    /\ pending' = [pending EXCEPT ![1].left = pending[1].left - 1]

CloseTable ==
    /\ pending # <<>>
    /\ pending[1].opened
    /\ pending[1].left = 0
    /\ pending' = Tail(pending)
    /\ UNCHANGED <<conv, stats, sink, driver, resp, steps, tableInterleaveIssues>>

NextData ==
    \/ QueryFails
    \/ OpenTable
    \/ ScanFails
    \/ ProcessRow
    \/ CloseTable

SpecData == InitData /\ [][NextData]_vars

----------------------------------------------------------------------------
(* Claims about data conversion. *)

\* The rows written for a target table, in the order they were written.
RowsWritten(tb) == SelectSeq(sink.rows, LAMBDA r : r.spTable = tb)

LastOf(seq) == seq[Len(seq)]

\* The bit pattern of the 64-bit reversal of n: bit 63 - i is set exactly when
\* bit i of n is.
Reversed(n) == {j \in 33..63 : (n \div (2 ^ (63 - j))) % 2 = 1}

\* C16: in a table with a synthetic key the k-th row that was converted carries,
\* under the synthetic column, the 64-bit reversal of the k-th value of the
\* counter (0, 1, 2, ...); the counter equals the number of rows converted, so
\* it grows by one per converted row and never resets; no two rows of the table
\* carry the same key.
C16_SequentialKeys ==
    \A tb \in DOMAIN conv.SyntheticPKeys :
        /\ conv.SyntheticPKeys[tb].Sequence = Len(RowsWritten(tb))
        /\ \A n \in 1..Len(RowsWritten(tb)) :
                /\ LastOf(RowsWritten(tb)[n].cols) = conv.SyntheticPKeys[tb].Col
                /\ LastOf(RowsWritten(tb)[n].vals).bits = Reversed(n - 1)
        /\ \A m, n \in 1..Len(RowsWritten(tb)) :
                m < n => LastOf(RowsWritten(tb)[m].vals) # LastOf(RowsWritten(tb)[n].vals)

\* Two rows of t were converted, the second under the key with bit 63 alone.
C16_SecondKey ==
    /\ Len(RowsWritten("t")) = 2
    /\ LastOf(RowsWritten("t")[1].vals).bits = {}
    /\ LastOf(RowsWritten("t")[2].vals).bits = {63}
    /\ conv.SyntheticPKeys["t"].Sequence = 2

\* What ConvertSQLRow yields for the row v of the source table tb in the
\* current state.
RowOf(tb, v) ==
    ConvertSQLRow(conv, tb, DataColumns[tb], conv.SrcSchema[tb],
                  GetSpannerTable(conv, tb), GetSpannerCols(conv, tb, DataColumns[tb]),
                  conv.SpSchema[GetSpannerTable(conv, tb)], v)

NonNull(v) == {i \in 1..Len(v) : v[i] # Nil}

\* The columns of the cells of v that are not NULL, in source order.
NonNullCols(srcCols, v) ==
    [j \in 1..Cardinality(NonNull(v)) |->
        srcCols[CHOOSE i \in NonNull(v) : Cardinality({x \in NonNull(v) : x <= i}) = j]]

SyntheticCol(tb) ==
    IF GetSpannerTable(conv, tb) \in DOMAIN conv.SyntheticPKeys
    THEN <<conv.SyntheticPKeys[GetSpannerTable(conv, tb)].Col>>
    ELSE <<>>

C17_Shape(tb, v, r) ==
    \/ r.err
    \/ /\ Len(r.cs) = Len(r.vs)
       /\ r.cs = NonNullCols(DataColumns[tb], v) \o SyntheticCol(tb)
       /\ \A i \in 1..Len(v) :
            v[i] = Nil => \A j \in 1..Cardinality(NonNull(v)) : r.cs[j] # DataColumns[tb][i]
       /\ \A j \in 1..Len(r.vs) : r.vs[j] # Nil

\* C17: a row ConvertSQLRow converts yields a column list and a value list of
\* the same length, holding one entry per cell that is not NULL, in source
\* order, no entry for a NULL cell, and the synthetic key entry last when the
\* table has one; every row written has that shape.
C17_RowShape ==
    /\ \A tb \in DOMAIN conv.SrcSchema : \A v \in RowValues(tb) : C17_Shape(tb, v, RowOf(tb, v))
    /\ \A n \in 1..Len(sink.rows) :
            /\ Len(sink.rows[n].cols) = Len(sink.rows[n].vals)
            /\ SyntheticCol(sink.rows[n].srcTable) # <<>>
                    => <<LastOf(sink.rows[n].cols)>> = SyntheticCol(sink.rows[n].srcTable)

\* A row of t with a NULL in a was written as (b, synthetic key), and a row of
\* k, which has no synthetic key, as (a).
C17_NullOmitted ==
    /\ \E n \in 1..Len(sink.rows) :
            /\ sink.rows[n].srcTable = "t"
            /\ sink.rows[n].cols = <<"b", "synth_id">>
            /\ Len(sink.rows[n].vals) = 2
    /\ \E n \in 1..Len(sink.rows) :
            /\ sink.rows[n].srcTable = "k"
            /\ sink.rows[n].cols = <<"a">>

\* The text of a source value of the model.
TextOf(val) ==
    CASE val = Nil -> "NULL"
      [] val = BoolVal(TRUE) -> "true"
      [] val = Int64Val(7) -> "7"
      [] val = StringVal("x") -> "x"

BadRowsOf(st, tb) == Get(st.BadRows, tb, 0)

\* The loop body, given a row of tb whose conversion fails, leaves the run as
\* the claim says.
C18_Skipped(tb, v, run) ==
    /\ run.sink.rows = sink.rows
    /\ run.cv = conv
    /\ BadRowsOf(run.stats, tb) = BadRowsOf(stats, tb) + 1
    /\ \A other \in DOMAIN DataColumns \ {tb} :
            BadRowsOf(run.stats, other) = BadRowsOf(stats, other)
    /\ run.sink.badRows =
            Append(sink.badRows,
                   [srcTable |-> tb, srcCols |-> DataColumns[tb],
                    vals |-> [i \in 1..Len(v) |-> TextOf(v[i])]])

\* C18: a row with a cell that cannot be converted is not written, adds one to
\* the bad-row count of its table and hands the texts of its source values,
\* NULL as "NULL", to the bad-row sample; the rows after it are still
\* processed: of the rows of the table being read, each one so far was either
\* written or counted as bad.
C18_RowSkipped ==
    /\ \A tb \in DOMAIN conv.SrcSchema : \A v \in RowValues(tb) :
            RowOf(tb, v).err => C18_Skipped(tb, v, processRow(ThisRun, tb, DataColumns[tb], v))
    /\ (pending # <<>> /\ pending[1].opened) =>
            Len(SelectSeq(sink.rows, LAMBDA r : r.srcTable = pending[1].table))
                + BadRowsOf(stats, pending[1].table) + pending[1].left = MaxRows

\* A row ("x", NULL) of t failed, and so did the row ("x", 7) read after it.
C18_TwoBadRows ==
    /\ Len(sink.badRows) = 2
    /\ sink.badRows[1] = [srcTable |-> "t", srcCols |-> <<"a", "b">>, vals |-> <<"x", "NULL">>]
    /\ sink.badRows[2] = [srcTable |-> "t", srcCols |-> <<"a", "b">>, vals |-> <<"x", "7">>]
    /\ BadRowsOf(stats, "t") = 2
    /\ RowsWritten("t") = <<>>

\* The table about to be queried.
NextTable == pending[1].table

AtTable == pending # <<>> /\ ~pending[1].opened

\* The run reports a failure, leaves conv and the rows handed on alone, and
\* leaves every bad-row count as it was.
C19_Unchanged(run) ==
    /\ run.stats.Unexpected = stats.Unexpected + 1
    /\ run.cv = conv
    /\ run.sink = sink
    /\ \A tb \in DOMAIN DataColumns : BadRowsOf(run.stats, tb) = BadRowsOf(stats, tb)

\* The rows of the source table tb that were read: written, or counted as bad.
RowsRead(tb) == Len(SelectSeq(sink.rows, LAMBDA r : r.srcTable = tb)) + BadRowsOf(stats, tb)

\* The failures reported for whole tables: every failure of a row is reported
\* once and counted once as a bad row of a table the schema knows.
TableFailures ==
    stats.Unexpected
        - (IF "t" \in DOMAIN conv.SrcSchema THEN BadRowsOf(stats, "t") ELSE 0)
        - (IF "k" \in DOMAIN conv.SrcSchema THEN BadRowsOf(stats, "k") ELSE 0)

\* C19: a table that cannot be queried, or whose columns or schema mapping
\* cannot be resolved, is reported and its bad-row count stays as it was; the
\* run goes on: at its end every table of the list was either read to its last
\* row or reported.
C19_TableFailure ==
    /\ AtTable =>
            /\ C19_Unchanged(queryFailed(ThisRun))
            /\ ~resolves(conv, NextTable, DataColumns[NextTable])
                    => C19_Unchanged(cannotResolve(ThisRun, NextTable))
    /\ pending = <<>> =>
            Cardinality({tb \in DOMAIN conv.SrcSchema : RowsRead(tb) = MaxRows}) + TableFailures
                = Cardinality(DOMAIN DataColumns)

\* What holds of the run at a table-level failure: as C19_TableFailure but for
\* the bad-row count of a table that cannot be resolved, which grows by the
\* number of rows of the table.
TableFailurePolicy ==
    /\ AtTable =>
            /\ C19_Unchanged(queryFailed(ThisRun))
            /\ ~resolves(conv, NextTable, DataColumns[NextTable])
                    => /\ BadRowsOf(cannotResolve(ThisRun, NextTable).stats, NextTable)
                            = BadRowsOf(stats, NextTable) + Get(stats.Rows, NextTable, 0)
                       /\ cannotResolve(ThisRun, NextTable).stats.Unexpected
                            = stats.Unexpected + 1
    /\ pending = <<>> =>
            Cardinality({tb \in DOMAIN conv.SrcSchema : RowsRead(tb) = MaxRows}) + TableFailures
                = Cardinality(DOMAIN DataColumns)

----------------------------------------------------------------------------
(* Schema conversion runs: ProcessInfoSchema, one step per table of its     *)
(* loop.  conv is the conv the caller passed, pending the rest of the table *)
(* list (the head is the table of the current iteration), steps the number  *)
(* of returns of ProcessInfoSchema, resp what convertSchemaSQL answers.     *)

StatusNotFound == "404 Not Found"

\* internal.MakeConv
MakeConv ==
    [SrcSchema |-> EmptyMap, SpSchema |-> EmptyMap, ToSource |-> EmptyMap,
     ToSpanner |-> EmptyMap, Issues |-> EmptyMap, SyntheticPKeys |-> EmptyMap]

\* What the information schema of the source holds for each table.
SchemaSource == DataDatabase @@ InterleaveDatabase

\* The table lists getTables may yield.
RECURSIVE TableLists(_)
TableLists(n) ==
    IF n = 0
    THEN {<<>>}
    ELSE TableLists(n - 1)
            \cup {Append(l, tb) : l \in {x \in TableLists(n - 1) : Len(x) = n - 1},
                                  tb \in DOMAIN SchemaSource}

\* processTable returns an error (getColumns, getConstraints or getForeignKeys
\* failed) and ProcessInfoSchema returns it.
processTableFailed(cv, tables) == [cv |-> cv, tables |-> tables, err |-> TRUE, returned |-> TRUE]

\* processTable stores the table in conv.SrcSchema.
processTable(cv, table) ==
    [cv EXCEPT !.SrcSchema = Put(cv.SrcSchema, table, SchemaSource[table])]

InitSchema ==
    /\ conv = MakeConv
    /\ driver = "postgres"
    /\ resp = StatusOK
    /\ steps = 0
    /\ tableInterleaveIssues = NoInterleaveStatus
    /\ \E tables \in TableLists(MaxTables) :
            /\ \A i, j \in 1..Len(tables) : tables[i] = tables[j] => i = j
            /\ pending = [i \in 1..Len(tables) |-> Queued(tables[i])]
    /\ stats = NoStats
    /\ sink = NoSink

InLoop == steps = 0 /\ pending # <<>>

ProcessTable ==
    /\ InLoop
    /\ conv' = processTable(conv, pending[1].table)
    /\ pending' = Tail(pending)
    /\ UNCHANGED <<driver, resp, steps, tableInterleaveIssues, stats, sink>>

\* The state after the iteration for a table that cannot be enumerated.
TableFailed(r) ==
    /\ conv' = r.cv
    /\ pending' = [i \in 1..Len(r.tables) |-> Queued(r.tables[i])]
    /\ steps' = IF r.returned THEN steps + 1 ELSE steps
    /\ resp' = IF r.err THEN StatusNotFound ELSE resp
    /\ UNCHANGED <<driver, tableInterleaveIssues, stats, sink>>

ProcessTableFails ==
    /\ InLoop
    /\ TableFailed(processTableFailed(conv, [i \in 1..Len(pending) |-> pending[i].table]))

\* After the loop: schemaToDDL, AddPrimaryKeys, return nil.
SchemaDone ==
    /\ steps = 0
    /\ pending = <<>>
    /\ conv' = ProcessInfoSchema(conv.SrcSchema)
    /\ steps' = steps + 1
    /\ UNCHANGED <<driver, resp, pending, tableInterleaveIssues, stats, sink>>

NextSchema ==
    \/ ProcessTable
    \/ ProcessTableFails
    \/ SchemaDone

SpecSchema == InitSchema /\ [][NextSchema]_vars

\* C20: when ProcessInfoSchema has returned after a table could not be
\* enumerated, the failure was surfaced, that table is not in the source
\* schema, and the tables listed after it are.
C20_OthersProceed ==
    (steps = 1 /\ resp = StatusNotFound) =>
        /\ pending # <<>>
        /\ pending[1].table \notin DOMAIN conv.SrcSchema
        /\ \A i \in 2..Len(pending) : pending[i].table \in DOMAIN conv.SrcSchema

----------------------------------------------------------------------------
(* Claims C21 to C30. *)

\* The schema model of a conversion state: all of it but the counters.
SchemaModel(cv) ==
    [SrcSchema |-> cv.SrcSchema, SpSchema |-> cv.SpSchema, ToSource |-> cv.ToSource,
     ToSpanner |-> cv.ToSpanner, Issues |-> cv.Issues]

\* The synthetic key columns, without their counters.
SyntheticCols(cv) == [tb \in DOMAIN cv.SyntheticPKeys |-> cv.SyntheticPKeys[tb].Col]

\* C21: no step of a data conversion run changes SrcSchema, SpSchema, ToSource,
\* ToSpanner or Issues, nor which tables have a synthetic key column and what
\* it is called; only the counters and the statistics change.
C21_SchemaReadOnly ==
    [][/\ SchemaModel(conv') = SchemaModel(conv)
       /\ SyntheticCols(conv') = SyntheticCols(conv)]_vars

\* Rows were written and counted in a run: the counter of t and the statistics
\* have changed.
C21_RowsConverted ==
    /\ conv.SyntheticPKeys["t"].Sequence = 2
    /\ RowsWritten("k") # <<>>
    /\ stats.Unexpected > 0
    /\ SchemaModel(conv) = SchemaModel(ProcessInfoSchema(DataDatabase))

----------------------------------------------------------------------------
(* Concurrent edit requests.  net/http serves every request on a goroutine  *)
(* of its own and the handlers take no lock on app (web.go 655-662), so the *)
(* calls two handlers make on app.conv interleave.  pending holds the       *)
(* requests being served, each with the position of its handler; a call of  *)
(* a mutator is one step (the interleavings inside the mutators, which are  *)
(* data races on the maps and slices of app.conv, are left out).            *)

InFlight(table, col, v) ==
    [table |-> table, col |-> col, v |-> v, pc |-> "entry", failed |-> FALSE]

\* The edit records and the columns of the concurrent requests.
ConcurrentValues ==
    {[NoChange EXCEPT !.Removed = TRUE],
     [NoChange EXCEPT !.Rename = "c"],
     [NoChange EXCEPT !.PK = "REMOVED", !.NotNull = "ADDED"],
     [NoChange EXCEPT !.PK = "ADDED", !.ToType = "STRING"]}

ConcurrentCols == {"a", "b"}

InitConcurrent ==
    /\ conv = ProcessInfoSchema(KeyedDatabase)
    /\ driver = "postgres"
    /\ resp = StatusOK
    /\ steps = 0
    /\ tableInterleaveIssues = NoInterleaveStatus
    /\ \E c1, c2 \in ConcurrentCols : \E v1, v2 \in ConcurrentValues :
            pending = <<InFlight("t", c1, v1), InFlight("t", c2, v2)>>
    /\ stats = NoStats
    /\ sink = NoSink

SrcNameOf(cv, table) == Get(cv.ToSource, table, ZeroNameAndCols).Name

\* Handler i moves to position pc, leaving app.conv as cv.
Moved(i, cv, pc, failed) ==
    /\ conv' = cv
    /\ pending' = [pending EXCEPT ![i].pc = pc, ![i].failed = failed]
    /\ UNCHANGED <<driver, resp, steps, tableInterleaveIssues, stats, sink>>

At(i, pc) == i \in 1..Len(pending) /\ pending[i].pc = pc

DoRemove(i) ==
    /\ At(i, "entry")
    /\ pending[i].v.Removed
    /\ Moved(i, removeColumn(conv, pending[i].table, pending[i].col,
                             SrcNameOf(conv, pending[i].table)),
             "respond", FALSE)

DoRename(i) ==
    /\ At(i, "entry")
    /\ ~pending[i].v.Removed
    /\ Moved(i, renameStep(conv, pending[i].table, SrcNameOf(conv, pending[i].table),
                           pending[i].col, pending[i].v),
             "pk", FALSE)

NewNameOf(i) == newColNameOf(pending[i].col, pending[i].v)

DoPk(i) ==
    /\ At(i, "pk")
    /\ Moved(i, pkStep(conv, pending[i].table, NewNameOf(i), pending[i].v), "type", FALSE)

DoType(i) ==
    /\ At(i, "type")
    /\ \A u \in {typeStep(conv, driver, pending[i].table, SrcNameOf(conv, pending[i].table),
                          NewNameOf(i), pending[i].v)} :
            Moved(i, u.cv, "notnull", u.failed)

DoNotNull(i) ==
    /\ At(i, "notnull")
    /\ Moved(i, notNullStep([cv |-> conv, failed |-> pending[i].failed], pending[i].table,
                            NewNameOf(i), pending[i].v).cv,
             "respond", pending[i].failed)

DoRespond(i) ==
    /\ At(i, "respond")
    /\ conv' = AddPrimaryKeys(conv)
    /\ resp' = IF pending[i].failed THEN StatusBadRequest ELSE StatusOK
    /\ steps' = steps + 1
    /\ pending' = [pending EXCEPT ![i].pc = "done"]
    /\ UNCHANGED <<driver, tableInterleaveIssues, stats, sink>>

NextConcurrent ==
    \E i \in {1, 2} :
        \/ DoRemove(i)
        \/ DoRename(i)
        \/ DoPk(i)
        \/ DoType(i)
        \/ DoNotNull(i)
        \/ DoRespond(i)

SpecConcurrent == InitConcurrent /\ [][NextConcurrent]_vars

\* The model request i alone leaves, served from the model cv.
ServedAlone(cv, i) ==
    updateTableSchema(cv, driver, pending[i].table,
                      <<[col |-> pending[i].col, v |-> pending[i].v]>>).cv

\* C22: once two concurrent requests are both answered, app.conv is what
\* serving them one after the other, in one of the two orders, leaves.
C22_Serializable ==
    (At(1, "done") /\ At(2, "done")) =>
        \/ conv = ServedAlone(ServedAlone(ProcessInfoSchema(KeyedDatabase), 1), 2)
        \/ conv = ServedAlone(ServedAlone(ProcessInfoSchema(KeyedDatabase), 2), 1)

----------------------------------------------------------------------------
(* Type edits: setTypeMapGlobal, and sessions that mix it with              *)
(* updateTableSchema over a table with array columns.                       *)

\* The target columns whose source type name is a key of typeMap.
mappedColumns(cv, typeMap) ==
    {tc \in UNION {{<<t, col>> : col \in DOMAIN cv.SpSchema[t].ColDefs} : t \in DOMAIN cv.SpSchema} :
        sourceColumn(cv, tc[1], tc[2], SrcNameOf(cv, tc[1])).Type.Name \in DOMAIN typeMap}

\* As retypeMapped, the column definition redone from the source column, its
\* not-null flag included.
retypeMappedAfresh(cv, drv, typeMap, t, col, sourceTable, srcCol) ==
    LET after == setType(cv, t, col, sourceTable, srcCol,
                    toSpannerType(drv, srcCol.Type.Name, typeMap[srcCol.Type.Name],
                                  srcCol.Type.Mods))
    IN  [after EXCEPT !.SpSchema[t].ColDefs[col].NotNull = srcCol.NotNull]

\* The body of the loops of setTypeMapGlobal for a mapped column.
retypeMapped(cv, drv, typeMap, t, col, sourceTable, srcCol) ==
    setType(cv, t, col, sourceTable, srcCol,
            toSpannerType(drv, srcCol.Type.Name, typeMap[srcCol.Type.Name], srcCol.Type.Mods))

retypeColumn(cv, drv, typeMap, tc) ==
    retypeMapped(cv, drv, typeMap, tc[1], tc[2], SrcNameOf(cv, tc[1]),
                 sourceColumn(cv, tc[1], tc[2], SrcNameOf(cv, tc[1])))

\* The loops of setTypeMapGlobal over the columns todo; the columns are retyped
\* independently of each other, in whatever order range visits them.
RECURSIVE retypeAll(_, _, _, _)
retypeAll(cv, drv, typeMap, todo) ==
    IF todo = {}
    THEN cv
    ELSE retypeAll(retypeColumn(cv, drv, typeMap, CHOOSE tc \in todo : TRUE),
                   drv, typeMap, todo \ {CHOOSE tc \in todo : TRUE})

\* The whole handler on a well-formed body: [cv, status].  With a driver the
\* switch does not know, the first mapped column ends the handler.
setTypeMapGlobal(cv, drv, typeMap) ==
    IF mappedColumns(cv, typeMap) # {} /\ ~DriverSupported(drv)
    THEN [cv |-> cv, status |-> StatusBadRequest]
    ELSE [cv |-> retypeAll(cv, drv, typeMap, mappedColumns(cv, typeMap)),
          status |-> StatusOK]

\* m(a int8[][], b int4[], c varchar(10) primary key default ...)
ArrayDatabase ==
    [m |-> [Name |-> "m", ColNames |-> <<"a", "b", "c">>,
            ColDefs |-> [a |-> SrcCol("a", "int8", <<>>, <<-1, -1>>, FALSE, FALSE),
                         b |-> SrcCol("b", "int4", <<>>, <<-1>>, FALSE, FALSE),
                         c |-> SrcCol("c", "varchar", <<10>>, <<>>, TRUE, TRUE)],
            PrimaryKeys |-> <<"c">>,
            ForeignKeys |-> <<>>]]

TypeFamilies == {"INT64", "STRING", "BYTES"}

\* The bodies of the global requests: maps from source type names to families.
TypeMaps ==
    UNION {[names -> TypeFamilies] : names \in SUBSET {"int8", "int4", "varchar"}}

\* The records of the table requests of these sessions.
TypeValues ==
    {[NoChange EXCEPT !.Removed = TRUE],
     [NoChange EXCEPT !.Rename = "k"],
     [NoChange EXCEPT !.PK = "ADDED"],
     [NoChange EXCEPT !.PK = "REMOVED"],
     [NoChange EXCEPT !.NotNull = "ADDED"],
     [NoChange EXCEPT !.Rename = "k", !.ToType = "STRING"]}
    \cup {[NoChange EXCEPT !.ToType = f] : f \in TypeFamilies}

TypeRequests == {<<Entry(c, v)>> : c \in {"a", "b", "c", "k"}, v \in TypeValues}

InitTypes ==
    /\ conv = ProcessInfoSchema(ArrayDatabase)
    /\ driver = "postgres"
    /\ resp = StatusOK
    /\ steps = 0
    /\ tableInterleaveIssues = NoInterleaveStatus
    /\ DataIdle

\* POST /typemap/global
SetTypeMapGlobal ==
    \E typeMap \in TypeMaps :
        /\ steps < MaxSteps
        /\ Served(setTypeMapGlobal(conv, driver, typeMap))

\* POST /typemap/table?table=m
UpdateTypedTable ==
    \E entries \in TypeRequests :
        /\ steps < MaxSteps
        /\ CanAddPrimaryKeys(updateColsLoop(conv, driver, "m", entries).cv)
        /\ Served(updateTableSchema(conv, driver, "m", entries))

NextTypes == SetTypeMapGlobal \/ UpdateTypedTable

SpecTypes == InitTypes /\ [][NextTypes]_vars

\* The target columns of the table whose source column has several array
\* bounds.
MultiDimensional(cv, t) ==
    {col \in DOMAIN SpTable(cv, t).ColDefs :
        Len(sourceColumn(cv, t, col, SrcNameOf(cv, t)).Type.ArrayBounds) > 1}

IsIssue(seq, issue) == \E n \in 1..Len(seq) : seq[n] = issue

\* In the model after, column col of t is an unbounded string, no array, and
\* its source column carries the multi-dimensional-array issue.
C23_UnboundedString(pre, after, t, col) ==
    /\ SpTable(after, t).ColDefs[col].T = [Name |-> "STRING", Len |-> MaxLength, IsArray |-> FALSE]
    /\ IsIssue(Get(IssuesOf(after, SrcNameOf(pre, t)),
                   sourceColumn(pre, t, col, SrcNameOf(pre, t)).Name, <<>>),
               "MultiDimensionalArray")

\* C23: whatever family is asked for, a retype of a column whose source column
\* has several array bounds, by updateType or by setTypeMapGlobal, leaves the
\* unbounded string type with IsArray false and the multi-dimensional-array
\* issue; in no state is such a column of an array type.
C23_MultiDimensional ==
    \A t \in Tables : \A col \in MultiDimensional(conv, t) :
        /\ ~SpTable(conv, t).ColDefs[col].T.IsArray
        /\ \A f \in TypeFamilies :
                C23_UnboundedString(conv,
                    updateType(conv, driver, f, t, col, SrcNameOf(conv, t)).cv, t, col)
        /\ \A typeMap \in TypeMaps :
                sourceColumn(conv, t, col, SrcNameOf(conv, t)).Type.Name \in DOMAIN typeMap
                    => C23_UnboundedString(conv, setTypeMapGlobal(conv, driver, typeMap).cv,
                                           t, col)

\* One global request has retyped b (int4[]) to an array of strings and c to
\* BYTES(10), and a (int8[][]) is an unbounded string.
C23_GlobalRetype ==
    /\ steps = 1
    /\ "m" \in Tables
    /\ {"a", "b", "c"} \subseteq DOMAIN conv.SpSchema["m"].ColDefs
    /\ conv.SpSchema["m"].ColDefs["b"].T = [Name |-> "STRING", Len |-> MaxLength, IsArray |-> TRUE]
    /\ conv.SpSchema["m"].ColDefs["c"].T = [Name |-> "BYTES", Len |-> 10, IsArray |-> FALSE]
    /\ conv.SpSchema["m"].ColDefs["a"].T = [Name |-> "STRING", Len |-> MaxLength, IsArray |-> FALSE]
    /\ IsIssue(conv.Issues["m"]["a"], "MultiDimensionalArray")

\* The names the edits of these sessions may give or mention.
TypeNames == {"a", "b", "c", "k"}

\* The issues a retype of the source column to family f records.
IssuesFor(srcCol, f) ==
    withFamilyIndependentIssues(srcCol, toSpannerType(driver, srcCol.Type.Name, f, srcCol.Type.Mods).issues)

\* The issues of after are those of pre but for the issues of srcCol, which are
\* those of a retype to f when that retype has any.
C24_UnderSource(pre, after, t, srcCol, f) ==
    /\ DOMAIN after.Issues = DOMAIN pre.Issues
    /\ \A other \in DOMAIN pre.Issues \ {SrcNameOf(pre, t)} : after.Issues[other] = pre.Issues[other]
    /\ IF IssuesFor(srcCol, f) = <<>>
       THEN after.Issues = pre.Issues
       ELSE after.Issues[SrcNameOf(pre, t)]
                = Put(pre.Issues[SrcNameOf(pre, t)], srcCol.Name, IssuesFor(srcCol, f))

\* C24: renameColumn, pkChanged and updateNotNull leave Issues as it is; a
\* retype of a column, renamed in an earlier request or in the same one,
\* records its issues under the source table and the name of the source
\* column, and a new name that no source column has never becomes a key of the
\* issues of the table.
C24_IssuesFollowSource ==
    \A t \in Tables :
        /\ \A c, n \in TypeNames :
                renameColumn(conv, n, t, c, SrcNameOf(conv, t)).Issues = conv.Issues
        /\ \A c \in TypeNames : \A k \in Toggles :
                /\ pkChanged(conv, k, t, c).Issues = conv.Issues
                /\ updateNotNull(conv, k, t, c).Issues = conv.Issues
        /\ \A c \in DOMAIN SpTable(conv, t).ColDefs : \A f \in TypeFamilies :
                IsLinked(conv, t, c) =>
                    /\ C24_UnderSource(conv,
                            updateType(conv, driver, f, t, c, SrcNameOf(conv, t)).cv,
                            t, SrcColumnOf(conv, t, c), f)
                    /\ \A n \in TypeNames \ {c} :
                            C24_UnderSource(conv,
                                updateTableSchema(conv, driver, t,
                                    <<Entry(c, [NoChange EXCEPT !.Rename = n, !.ToType = f])>>).cv,
                                t, SrcColumnOf(conv, t, c), f)
        /\ "k" \notin DOMAIN IssuesOf(conv, SrcNameOf(conv, t))

\* Column b of m is now called k and is an array of strings, and the issue of
\* that retype is recorded under b.
C24_RetypedAfterRename ==
    /\ "m" \in Tables
    /\ "k" \in DOMAIN conv.SpSchema["m"].ColDefs
    /\ Get(conv.ToSource["m"].Cols, "k", "") = "b"
    /\ conv.SpSchema["m"].ColDefs["k"].T = [Name |-> "STRING", Len |-> MaxLength, IsArray |-> TRUE]
    /\ Get(conv.Issues["m"], "b", <<>>) = <<"Widened">>
    /\ "k" \notin DOMAIN conv.Issues["m"]

----------------------------------------------------------------------------
(* Introspection of one table: getConstraints, getForeignKeys, getRefTables, *)
(* getForeignKey and processTable over what the information schema holds.    *)
(* The head of pending is the table being processed: keyRows are the rows of *)
(* the constraint query in the order they are read, fkeys the foreign-key    *)
(* constraints of the table, each with its column pairs in ordinal order.    *)

KeyRow(col, constraint) == [col |-> col, constraint |-> constraint, scans |-> TRUE]

\* A row rows.Scan fails on.
UnscannedRow == [col |-> "", constraint |-> "", scans |-> FALSE]

skipped(row) == ~row.scans \/ row.col = "" \/ row.constraint = ""

\* As primaryKeysOf, a column listed once however often it is read.
primaryKeysOnce(keyRows) ==
    LET keys[n \in 0..Len(keyRows)] ==
            IF n = 0
            THEN <<>>
            ELSE IF /\ ~skipped(keyRows[n])
                    /\ keyRows[n].constraint = "PRIMARY KEY"
                    /\ IndexOfCol(keys[n - 1], keyRows[n].col) = 0
                 THEN Append(keys[n - 1], keyRows[n].col)
                 ELSE keys[n - 1]
    IN  keys[Len(keyRows)]

\* getConstraints: primaryKeys
primaryKeysOf(keyRows) ==
    LET keys[n \in 0..Len(keyRows)] ==
            IF n = 0
            THEN <<>>
            ELSE IF ~skipped(keyRows[n]) /\ keyRows[n].constraint = "PRIMARY KEY"
                 THEN Append(keys[n - 1], keyRows[n].col)
                 ELSE keys[n - 1]
    IN  keys[Len(keyRows)]

\* getConstraints: m
constraintsOf(keyRows) ==
    LET m[n \in 0..Len(keyRows)] ==
            IF n = 0
            THEN EmptyMap
            ELSE IF ~skipped(keyRows[n]) /\ keyRows[n].constraint # "PRIMARY KEY"
                 THEN Put(m[n - 1], keyRows[n].col,
                          Append(Get(m[n - 1], keyRows[n].col, <<>>), keyRows[n].constraint))
                 ELSE m[n - 1]
    IN  m[Len(keyRows)]

\* The calls of conv.Unexpected in getConstraints.
unexpectedRows(keyRows) == Cardinality({n \in 1..Len(keyRows) : skipped(keyRows[n])})

\* getConstraints on a query that succeeds: [primaryKeys, m, unexpected].
getConstraints(keyRows) ==
    [primaryKeys |-> primaryKeysOf(keyRows), m |-> constraintsOf(keyRows),
     unexpected |-> unexpectedRows(keyRows)]

\* A foreign-key constraint: pairs[n] is <<local column, referenced column>>,
\* the referenced column being the n-th of the referenced key.
Fkey(refTable, pairs) == [refTable |-> refTable, pairs |-> pairs]

\* getRefTables: one row for each foreign-key constraint of the table.
getRefTables(fkeys) == [n \in 1..Len(fkeys) |-> fkeys[n].refTable]

\* The rows the query of getForeignKey matches: the column pairs of every
\* constraint from the table to refTable.
fkeyRows(fkeys, refTable) ==
    UNION {{[col |-> fkeys[k].pairs[n][1], refCol |-> fkeys[k].pairs[n][2],
             ord |-> n, fkey |-> k] : n \in 1..Len(fkeys[k].pairs)} :
           k \in {x \in 1..Len(fkeys) : fkeys[x].refTable = refTable}}

\* The orders the query may deliver them in: ORDER BY ref.ordinal_position.
rowOrders(rows) ==
    {o \in [1..Cardinality(rows) -> rows] :
        /\ \A i, j \in 1..Cardinality(rows) : i < j => o[i] # o[j] /\ o[i].ord <= o[j].ord}

\* getForeignKey on the rows read.
getForeignKey(rows, refTable) ==
    Fk("", [n \in 1..Len(rows) |-> rows[n].col], refTable,
       [n \in 1..Len(rows) |-> rows[n].refCol])

\* getForeignKeys: every list of descriptors the loop over the referenced
\* tables can return.
getForeignKeys(fkeys) ==
    LET results[n \in 0..Len(fkeys)] ==
            IF n = 0
            THEN {<<>>}
            ELSE {Append(fks, getForeignKey(o, getRefTables(fkeys)[n])) :
                    fks \in results[n - 1],
                    o \in rowOrders(fkeyRows(fkeys, getRefTables(fkeys)[n]))}
    IN  results[Len(fkeys)]

\* The columns of the table the catalog describes.
CatalogColumns ==
    [a |-> SrcCol("a", "int8", <<>>, <<>>, TRUE, FALSE),
     b |-> SrcCol("b", "int8", <<>>, <<>>, TRUE, FALSE)]

\* processTable for the head of pending, foreignKeys being what getForeignKeys
\* returned (the Unique, ForeignKey and Check flags processColumns derives from
\* m are not part of the columns of the model).
processCatalogTable(cv, entry, foreignKeys) ==
    [cv EXCEPT !.SrcSchema =
        Put(cv.SrcSchema, entry.table,
            [Name |-> entry.table, ColNames |-> <<"a", "b">>, ColDefs |-> CatalogColumns,
             PrimaryKeys |-> getConstraints(entry.keyRows).primaryKeys,
             ForeignKeys |-> foreignKeys])]

KeyRowPool ==
    {KeyRow(col, k) : col \in {"a", "b", ""}, k \in {"PRIMARY KEY", "UNIQUE", ""}}
    \cup {UnscannedRow}

FkeyPool ==
    {Fkey(refTable, pairs) :
        refTable \in {"p", "q"},
        pairs \in {<<(<<"a", "a">>)>>, <<(<<"b", "b">>)>>, <<(<<"b", "a">>), (<<"a", "b">>)>>}}

SeqsUpTo(pool, n) == UNION {[1..k -> pool] : k \in 0..n}

CatalogEntry(keyRows, fkeys) == [table |-> "c", keyRows |-> keyRows, fkeys |-> fkeys]

InitCatalog ==
    /\ conv = MakeConv
    /\ driver = "postgres"
    /\ resp = StatusOK
    /\ steps = 0
    /\ tableInterleaveIssues = NoInterleaveStatus
    /\ \/ \E keyRows \in SeqsUpTo(KeyRowPool, MaxKeyRows) :
            pending = <<CatalogEntry(keyRows, <<>>)>>
       \/ \E fkeys \in SeqsUpTo(FkeyPool, MaxFkeys) :
            pending = <<CatalogEntry(<<KeyRow("a", "PRIMARY KEY")>>, fkeys)>>
    /\ stats = NoStats
    /\ sink = NoSink

ProcessCatalogTable ==
    /\ pending # <<>>
    /\ \E foreignKeys \in getForeignKeys(pending[1].fkeys) :
            conv' = processCatalogTable(conv, pending[1], foreignKeys)
    /\ stats' = [stats EXCEPT !.Unexpected =
                    stats.Unexpected + getConstraints(pending[1].keyRows).unexpected]
    /\ pending' = Tail(pending)
    /\ UNCHANGED <<driver, resp, steps, tableInterleaveIssues, sink>>

NextCatalog == ProcessCatalogTable

SpecCatalog == InitCatalog /\ [][NextCatalog]_vars

\* The descriptor of a constraint by itself.
OwnDescriptor(fkey) ==
    Fk("", [n \in 1..Len(fkey.pairs) |-> fkey.pairs[n][1]], fkey.refTable,
       [n \in 1..Len(fkey.pairs) |-> fkey.pairs[n][2]])

\* C25: the descriptors processTable stores for a table are, one for one,
\* the descriptors of its foreign-key constraints, each with the column pairs
\* of its own constraint in ordinal order, also when several constraints refer
\* to the same table.
C25_OnePerConstraint ==
    [][pending # <<>> =>
        /\ Len(conv'.SrcSchema["c"].ForeignKeys) = Len(pending[1].fkeys)
        /\ \A n \in 1..Len(conv'.SrcSchema["c"].ForeignKeys) :
                /\ conv'.SrcSchema["c"].ForeignKeys[n] = OwnDescriptor(pending[1].fkeys[n])
                /\ Len(conv'.SrcSchema["c"].ForeignKeys[n].Columns)
                        = Len(conv'.SrcSchema["c"].ForeignKeys[n].ReferColumns)]_vars

\* The rows of keyRows that getConstraints uses, in the order read.
UsedRows(keyRows) == SelectSeq(keyRows, LAMBDA row : ~skipped(row))

\* The columns of the PRIMARY KEY rows among rows, in order.
PrimaryKeyColumns(rows) ==
    LET keyed == SelectSeq(rows, LAMBDA row : row.constraint = "PRIMARY KEY")
    IN  [n \in 1..Len(keyed) |-> keyed[n].col]

\* C26: the primary key processTable stores is the columns of the PRIMARY KEY
\* rows in the order they were read, repetitions included; the constraint map
\* holds no PRIMARY KEY label; a row with an empty column or an empty
\* constraint kind is skipped and reported, and the table is still processed.
C26_KeysAsRead ==
    [][pending # <<>> =>
        /\ "c" \in DOMAIN conv'.SrcSchema
        /\ conv'.SrcSchema["c"].PrimaryKeys = PrimaryKeyColumns(UsedRows(pending[1].keyRows))
        /\ \A col \in DOMAIN getConstraints(pending[1].keyRows).m :
                ~IsIssue(getConstraints(pending[1].keyRows).m[col], "PRIMARY KEY")
        /\ stats'.Unexpected - stats.Unexpected
                = Len(pending[1].keyRows) - Len(UsedRows(pending[1].keyRows))]_vars

\* A table processed with a key read as b, a and one row skipped.
C26_KeyOrderKept ==
    /\ pending = <<>>
    /\ "c" \in DOMAIN conv.SrcSchema
    /\ conv.SrcSchema["c"].PrimaryKeys = <<"b", "a">>
    /\ stats.Unexpected = 1

----------------------------------------------------------------------------
(* Conversion of scalar values: tables of one column x, one for each target  *)
(* type, receiving values of every type database/sql delivers.               *)

ScalarTypes ==
    [vbool |-> "bool", vbytes |-> "bytea", vdate |-> "date", vint |-> "int8",
     vfloat |-> "float8", vstring |-> "text", vtime |-> "timestamptz"]

ScalarTables == DOMAIN ScalarTypes

ScalarDatabase ==
    [tb \in ScalarTables |->
        [Name |-> tb, ColNames |-> <<"x">>,
         ColDefs |-> [x |-> SrcCol("x", ScalarTypes[tb], <<>>, <<>>, FALSE, FALSE)],
         PrimaryKeys |-> <<>>,
         ForeignKeys |-> <<>>]]

\* The values a cell may be scanned as.
ScalarValues ==
    {Nil, BoolVal(TRUE), BytesVal("7"), BytesVal("x"), Int64Val(7), Float64Val(75),
     StringVal("x"), StringVal("7"), StringVal("true"), StringVal("7.5"),
     StringVal("2020-01-02"), StringVal("2020-01-02 03:04:05+00"),
     TimeVal("2020-01-02", "03:04:05")}

InitScalar ==
    /\ conv = ProcessInfoSchema(ScalarDatabase)
    /\ driver = "postgres"
    /\ resp = StatusOK
    /\ steps = 0
    /\ tableInterleaveIssues = NoInterleaveStatus
    /\ \E tb \in ScalarTables : pending = <<[Queued(tb) EXCEPT !.opened = TRUE]>>
    /\ stats = [NoStats EXCEPT !.Rows = [tb \in ScalarTables |-> MaxRows]]
    /\ sink = NoSink

ProcessScalarRow ==
    /\ RowAvailable
    /\ \E v \in ScalarValues : Ran(processRow(ThisRun, pending[1].table, <<"x">>, <<v>>))
    /\ pending' = [pending EXCEPT ![1].left = pending[1].left - 1]

NextScalar ==
    \/ ProcessScalarRow
    \/ CloseTable

SpecScalar == InitScalar /\ [][NextScalar]_vars

\* The pairs <<received type, target type>> said to be supported.
SupportedPairs ==
    ({"bool", "string"} \X {"BOOL"})
    \cup ({"bytes"} \X {"BYTES"})
    \cup ({"string", "time"} \X {"DATE"})
    \cup ({"bytes", "int64", "float64", "string"} \X {"INT64", "FLOAT64"})
    \cup ({"bool", "bytes", "int64", "float64", "string", "time"} \X {"STRING"})
    \cup ({"string", "time"} \X {"TIMESTAMP"})

\* The result of cvtSQLScalar for value v in the column x of table tb.
ScalarResult(tb, v) ==
    cvtSQLScalar(conv.SrcSchema[tb].ColDefs["x"], conv.SpSchema[tb].ColDefs["x"], v)

\* The run after a row of tb holding v alone was processed.
AfterScalarRow(tb, v) == processRow(ThisRun, tb, <<"x">>, <<v>>)

----------------------------------------------------------------------------
(* The frame of the global retype. *)

\* The source columns <<source table, source column name>> of the target
\* columns the request map retypes.
MappedSources(cv, typeMap) ==
    {<<SrcNameOf(cv, tc[1]), sourceColumn(cv, tc[1], tc[2], SrcNameOf(cv, tc[1])).Name>> :
        tc \in mappedColumns(cv, typeMap)}

\* Table t of after is table t of pre but for the types of the mapped columns.
C28_TableKept(pre, after, typeMap, t) ==
    /\ SpTable(after, t).Name = SpTable(pre, t).Name
    /\ SpTable(after, t).ColNames = SpTable(pre, t).ColNames
    /\ SpTable(after, t).Pks = SpTable(pre, t).Pks
    /\ SpTable(after, t).Fks = SpTable(pre, t).Fks
    /\ SpTable(after, t).Parent = SpTable(pre, t).Parent
    /\ DOMAIN SpTable(after, t).ColDefs = DOMAIN SpTable(pre, t).ColDefs
    /\ \A col \in DOMAIN SpTable(pre, t).ColDefs :
            /\ SpTable(after, t).ColDefs[col].Name = SpTable(pre, t).ColDefs[col].Name
            /\ SpTable(after, t).ColDefs[col].NotNull = SpTable(pre, t).ColDefs[col].NotNull
            /\ <<t, col>> \notin mappedColumns(pre, typeMap) =>
                    SpTable(after, t).ColDefs[col] = SpTable(pre, t).ColDefs[col]

C28_Kept(pre, after, typeMap) ==
    /\ DOMAIN after.SpSchema = DOMAIN pre.SpSchema
    /\ \A t \in DOMAIN pre.SpSchema : C28_TableKept(pre, after, typeMap, t)
    /\ after.ToSource = pre.ToSource
    /\ after.ToSpanner = pre.ToSpanner
    /\ after.SrcSchema = pre.SrcSchema
    /\ after.SyntheticPKeys = pre.SyntheticPKeys
    /\ \A srcTable \in DOMAIN pre.Issues \cup DOMAIN after.Issues :
        \A srcCol \in DOMAIN IssuesOf(pre, srcTable) \cup DOMAIN IssuesOf(after, srcTable) :
            <<srcTable, srcCol>> \notin MappedSources(pre, typeMap) =>
                /\ srcCol \in DOMAIN IssuesOf(pre, srcTable)
                /\ srcCol \in DOMAIN IssuesOf(after, srcTable)
                /\ IssuesOf(after, srcTable)[srcCol] = IssuesOf(pre, srcTable)[srcCol]

\* C28: setTypeMapGlobal changes nothing but the type of the target columns
\* whose source type name is a key of the request map and the issue lists of
\* their source columns: column order, the set of columns, their names and
\* not-null flags, keys, foreign keys, parent, both correspondence maps and every
\* other column are as they were, whatever edits were made before.
C28_CustomizationsKept ==
    \A typeMap \in TypeMaps :
        \A after \in {setTypeMapGlobal(conv, driver, typeMap).cv} :
            C28_Kept(conv, after, typeMap)

\* On a table whose column a was renamed to k, one global request has retyped
\* b and c.
C28_RetypedAfterEdit ==
    /\ steps = 2
    /\ "m" \in DOMAIN conv.SpSchema
    /\ conv.SpSchema["m"].ColNames = <<"k", "b", "c">>
    /\ conv.SpSchema["m"].ColDefs["b"].T.Name = "STRING"
    /\ conv.SpSchema["m"].ColDefs["c"].T.Name = "BYTES"

----------------------------------------------------------------------------
(* The structure of the target tables under edits. *)

NoDuplicates(seq) == \A i, j \in 1..Len(seq) : i # j => seq[i] # seq[j]

\* The target table sp is consistent in itself.
Consistent(sp) ==
    /\ NoDuplicates(sp.ColNames)
    /\ {sp.ColNames[i] : i \in 1..Len(sp.ColNames)} = DOMAIN sp.ColDefs
    /\ \A k \in DOMAIN sp.ColDefs : sp.ColDefs[k].Name = k
    /\ \A i \in 1..Len(sp.Pks) : sp.Pks[i].Col \in DOMAIN sp.ColDefs
    /\ NoDuplicates([i \in 1..Len(sp.Pks) |-> sp.Pks[i].Col])
    /\ \A i \in 1..Len(sp.Fks) :
            \A n \in 1..Len(sp.Fks[i].Columns) : sp.Fks[i].Columns[n] \in DOMAIN sp.ColDefs

\* C29: in every state a session of edit requests reaches, every target table
\* is consistent: ColNames has no duplicates and names exactly the keys of
\* ColDefs, every column definition is stored under its own name, every key
\* column is a column and occurs once in Pks, and every local column of a
\* foreign key is a column.
C29_Consistent == \A t \in DOMAIN conv.SpSchema : Consistent(conv.SpSchema[t])

\* The names the correspondence maps of target table t hold, as keys or values.
CorrespondenceNames(cv, t) ==
    DOMAIN ToSourceCols(cv, t)
    \cup {ToSourceCols(cv, t)[c] : c \in DOMAIN ToSourceCols(cv, t)}
    \cup DOMAIN ToSpannerCols(cv, SrcNameOf(cv, t))
    \cup {ToSpannerCols(cv, SrcNameOf(cv, t))[c] : c \in DOMAIN ToSpannerCols(cv, SrcNameOf(cv, t))}

\* Between pre and after, table t and its correspondence maps are the same.
C30_Untouched(pre, after, t) ==
    /\ SpTable(after, t).ColNames = SpTable(pre, t).ColNames
    /\ SpTable(after, t).ColDefs = SpTable(pre, t).ColDefs
    /\ SpTable(after, t).Pks = SpTable(pre, t).Pks
    /\ after.ToSource = pre.ToSource
    /\ after.ToSpanner = pre.ToSpanner
    /\ "" \in CorrespondenceNames(after, t) => "" \in CorrespondenceNames(pre, t)

\* The request of one record v for col leaves table t as it is.
C30_NoOp(t, col, v) ==
    CanAddPrimaryKeys(updateColsLoop(conv, driver, t, <<Entry(col, v)>>).cv) =>
        C30_Untouched(conv, updateTableSchema(conv, driver, t, <<Entry(col, v)>>).cv, t)

\* C30: a request whose record names a column the target table does not have
\* changes neither ColNames, ColDefs and Pks of the table nor the correspondence
\* maps, and adds no empty column name to the maps.
C30_MissingColumnNoOp ==
    \A t \in DOMAIN conv.SpSchema :
        \A col \in ColNamePool \ DOMAIN conv.SpSchema[t].ColDefs :
            \A v \in SingleChanges : C30_NoOp(t, col, v)

----------------------------------------------------------------------------
(* Claims C31 to C38. *)

\* The two records of es, the second first.
Swapped(es) == <<es[2], es[1]>>

\* C31: a request with records for two columns gives the same model whichever
\* of the two records the loop of updateTableSchema visits first.
C31_OrderIndependent ==
    \A t \in DOMAIN conv.SpSchema :
        \A es \in EntrySeqs(2, BatchValues) :
            /\ CanAddPrimaryKeys(updateColsLoop(conv, driver, t, es).cv)
            /\ CanAddPrimaryKeys(updateColsLoop(conv, driver, t, Swapped(es)).cv)
            => updateTableSchema(conv, driver, t, es).cv
                    = updateTableSchema(conv, driver, t, Swapped(es)).cv

----------------------------------------------------------------------------
(* Interleave checks on tables whose foreign keys refer to each other and to *)
(* themselves.                                                               *)

\* p(a primary key, b) and q(a primary key, b) refer to each other, p(a) ->
\* q(a) and q(a) -> p(a); r(a primary key, b) refers to itself, r(a) -> r(a).
MutualDatabase ==
    [p |-> [Name |-> "p", ColNames |-> <<"a", "b">>,
            ColDefs |-> [a |-> IntCol("a"), b |-> IntCol("b")],
            PrimaryKeys |-> <<"a">>,
            ForeignKeys |-> <<Fk("fk1", <<"a">>, "q", <<"a">>)>>],
     q |-> [Name |-> "q", ColNames |-> <<"a", "b">>,
            ColDefs |-> [a |-> IntCol("a"), b |-> IntCol("b")],
            PrimaryKeys |-> <<"a">>,
            ForeignKeys |-> <<Fk("fk2", <<"a">>, "p", <<"a">>)>>],
     r |-> [Name |-> "r", ColNames |-> <<"a", "b">>,
            ColDefs |-> [a |-> IntCol("a"), b |-> IntCol("b")],
            PrimaryKeys |-> <<"a">>,
            ForeignKeys |-> <<Fk("fk3", <<"a">>, "r", <<"a">>)>>]]

InitMutual ==
    /\ conv = ProcessInfoSchema(MutualDatabase)
    /\ driver = "postgres"
    /\ resp = StatusOK
    /\ steps = 0
    /\ tableInterleaveIssues = NoInterleaveStatus
    /\ DataIdle

\* GET /checkinterleave/table?table=... for a table of the schema.
CheckTable ==
    \E table \in DOMAIN conv.SpSchema :
        /\ steps < MaxSteps
        /\ InterleaveServed(checkForInterleavedTables(conv, table))

NextMutual == CheckTable \/ UpdateKeyColumns

SpecMutual == InitMutual /\ [][NextMutual]_vars

\* The tables reached from t by following Parent links, t's parent first, in
\* at most as many steps as there are tables.
RECURSIVE Ancestors(_, _, _)
Ancestors(cv, t, n) ==
    IF n = 0 \/ SpTable(cv, t).Parent = ""
    THEN {}
    ELSE {SpTable(cv, t).Parent} \cup Ancestors(cv, SpTable(cv, t).Parent, n - 1)

\* C32: the Parent of a table, when it has one, is a table of the schema with
\* a primary key and is not the table itself, and the Parent links from a table
\* never lead back to it.
C32_ParentsWellFormed ==
    \A t \in DOMAIN conv.SpSchema :
        conv.SpSchema[t].Parent # "" =>
            /\ conv.SpSchema[t].Parent \in DOMAIN conv.SpSchema
            /\ SpTable(conv, conv.SpSchema[t].Parent).Pks # <<>>
            /\ conv.SpSchema[t].Parent # t
            /\ t \notin Ancestors(conv, t, Cardinality(DOMAIN conv.SpSchema))

\* Two calls of checkForInterleavedTables on table in a row, first being the
\* result of the first: when the first recorded a parent the second answers the
\* same and changes nothing.
C33_SecondCallSame(table, first, second) ==
    first.issues.Possible =>
        /\ second.issues.Possible
        /\ second.issues.Parent = first.issues.Parent
        /\ SpTable(second.cv, table).Fks = SpTable(first.cv, table).Fks
        /\ second.cv = first.cv
        /\ second.issues.Parent = SpTable(second.cv, table).Parent

\* C33: after a call of checkForInterleavedTables that recorded a parent for a
\* table, a second call for the same table answers Possible with the same
\* Parent, removes no foreign key and leaves the model as it is, so that the
\* answer agrees with the Parent the table has.
C33_RepeatStable ==
    \A table \in TableNamePool :
        \A first \in {checkForInterleavedTables(conv, table)} :
            C33_SecondCallSame(table, first, checkForInterleavedTables(first.cv, table))

----------------------------------------------------------------------------
(* Data conversion after an edit session that renamed a target column.       *)

\* The models the run may start from: DataDatabase converted, and then one
\* column of t or k renamed to c.
RenamedModels ==
    {updateTableSchema(ProcessInfoSchema(DataDatabase), "postgres", tc[1],
                       <<Entry(tc[2], [NoChange EXCEPT !.Rename = "c"])>>).cv :
        tc \in {<<"t", "a">>, <<"t", "b">>, <<"k", "a">>}}

InitRenamed ==
    /\ conv \in RenamedModels
    /\ driver = "postgres"
    /\ resp = StatusOK
    /\ steps = 0
    /\ tableInterleaveIssues = NoInterleaveStatus
    /\ \E tables \in DataTableLists :
            pending = [i \in 1..Len(tables) |-> Queued(tables[i])]
    /\ stats = [NoStats EXCEPT !.Rows = [tb \in DOMAIN DataColumns |-> MaxRows]]
    /\ sink = NoSink

SpecRenamed == InitRenamed /\ [][NextData]_vars

\* C34: the columns ConvertSQLRow returns for the cells that are not NULL are
\* the target columns ToSpanner gives for their source columns, in source
\* order, also for a column that was renamed; every row written names columns
\* of its target table only.
C34_TargetNames ==
    /\ \A tb \in DOMAIN conv.SrcSchema :
        \A v \in RowValues(tb) :
            \A r \in {RowOf(tb, v)} :
                ~r.err => r.cs = NonNullCols(GetSpannerCols(conv, tb, DataColumns[tb]), v)
                                    \o SyntheticCol(tb)
    /\ \A n \in 1..Len(sink.rows) :
        \A i \in 1..Len(sink.rows[n].cols) :
            sink.rows[n].cols[i] \in DOMAIN SpTable(conv, sink.rows[n].spTable).ColDefs

----------------------------------------------------------------------------
(* The accounting of rows. *)

\* The number of rows of source table tb handed to WriteRow, in sink sk.
WrittenOf(sk, tb) == Cardinality({n \in 1..Len(sk.rows) : sk.rows[n].srcTable = tb})

\* A row of the table at the head of pending is pulled in this step.
RowPulled ==
    /\ pending # <<>>
    /\ pending' # <<>>
    /\ pending'[1].table = pending[1].table
    /\ pending'[1].left = pending[1].left - 1

\* The step writes the row of tb and counts no bad row, or counts one bad row
\* of tb and writes nothing.
WrittenOrBad(tb) ==
    \/ /\ WrittenOf(sink', tb) = WrittenOf(sink, tb) + 1
       /\ Len(sink'.rows) = Len(sink.rows) + 1
       /\ stats'.BadRows = stats.BadRows
    \/ /\ sink'.rows = sink.rows
       /\ BadRowsOf(stats', tb) = BadRowsOf(stats, tb) + 1
       /\ \A other \in DOMAIN stats.BadRows \ {tb} :
                BadRowsOf(stats', other) = BadRowsOf(stats, other)

\* C35: each row pulled from the stream of a table is written once or counted
\* once as a bad row of that table, never both and never neither; the rows
\* written and the bad rows of the table add up to the rows pulled so far, and
\* to all of them once the table is scanned to its end.
C35_ExactAccounting ==
    [][RowPulled =>
        /\ WrittenOrBad(pending[1].table)
        /\ WrittenOf(sink', pending[1].table) + BadRowsOf(stats', pending[1].table)
                = MaxRows - pending'[1].left]_vars

\* Table t was scanned to its end, some rows written and some counted as bad.
C35_WrittenAndBad ==
    /\ \A i \in 1..Len(pending) : pending[i].table # "t"
    /\ WrittenOf(sink, "t") >= 1
    /\ BadRowsOf(stats, "t") >= 1
    /\ WrittenOf(sink, "t") + BadRowsOf(stats, "t") = MaxRows

\* What ConvertSQLRow yields for a row of tb holding v alone.
ScalarRowOf(tb, v) ==
    ConvertSQLRow(conv, tb, <<"x">>, conv.SrcSchema[tb], GetSpannerTable(conv, tb),
                  GetSpannerCols(conv, tb, <<"x">>),
                  conv.SpSchema[GetSpannerTable(conv, tb)], <<v>>)

\* Between pre and after the counters are the same but for the one of table tb,
\* which is one higher.
C36_OwnCounterOnly(pre, after, tb) ==
    /\ DOMAIN after.SyntheticPKeys = DOMAIN pre.SyntheticPKeys
    /\ \A other \in DOMAIN pre.SyntheticPKeys \ {tb} :
            after.SyntheticPKeys[other] = pre.SyntheticPKeys[other]
    /\ tb \in DOMAIN pre.SyntheticPKeys =>
            /\ after.SyntheticPKeys[tb].Col = pre.SyntheticPKeys[tb].Col
            /\ after.SyntheticPKeys[tb].Sequence = pre.SyntheticPKeys[tb].Sequence + 1

\* C36: a call of ConvertSQLRow that returns an error leaves every counter of a
\* synthetic key as it was, and a call that succeeds advances the counter of
\* its own target table by one and no other.
C36_FailedRowTakesNoKey ==
    \A tb \in ScalarTables :
        \A v \in ScalarValues :
            \A r \in {ScalarRowOf(tb, v)} :
                /\ r.err => r.cv.SyntheticPKeys = conv.SyntheticPKeys
                /\ ~r.err => C36_OwnCounterOnly(conv, r.cv, GetSpannerTable(conv, tb))

\* Of two rows of the BOOL column one was refused and the other was written,
\* under the first sequence value; the counter stands at one and no other
\* counter has moved.
C36_OneRefusedOneWritten ==
    /\ pending # <<>>
    /\ pending[1].table = "vbool"
    /\ pending[1].left = 0
    /\ Len(sink.badRows) = 1
    /\ Len(sink.rows) = 1
    /\ LastOf(sink.rows[1].vals).bits = {}
    /\ conv.SyntheticPKeys["vbool"].Sequence = 1
    /\ \A other \in DOMAIN conv.SyntheticPKeys \ {"vbool"} :
            conv.SyntheticPKeys[other].Sequence = 0

----------------------------------------------------------------------------
(* Whole sessions.  The process starts from var app App: no connection, no  *)
(* driver and app.conv == nil, until a schema conversion succeeds.  steps   *)
(* counts the requests answered, resp is the answer to the latest one.      *)

\* app.conv == nil
NilConv == [absent |-> TRUE]

\* A handler that evaluates app.conv.SpSchema or app.conv.ToSource with a nil
\* app.conv panics; net/http recovers the panic and closes the connection, so
\* the client receives no status line.
Panicked == "panic: nil pointer dereference"

StatusInternalServerError == "500 Internal Server Error"

MaxRequests == 4

\* The global type maps of a session on InterleaveDatabase.
SessionTypeMaps == {tm \in TypeMaps : DOMAIN tm \subseteq {"int8"}}

InitSession ==
    /\ conv = NilConv
    /\ driver = ""
    /\ resp = ""
    /\ steps = 0
    /\ tableInterleaveIssues = NoInterleaveStatus
    /\ DataIdle

\* A request that is answered without a change of the application state.
Answered(status) ==
    /\ resp' = status
    /\ steps' = steps + 1
    /\ UNCHANGED <<conv, driver, tableInterleaveIssues, pending, stats, sink>>

\* POST /connect: the ping fails, or the connection and the driver are kept.
DatabaseConnection ==
    /\ steps < MaxRequests
    /\ \E pinged \in BOOLEAN :
        IF pinged
        THEN /\ driver' = "postgres"
             /\ resp' = StatusOK
             /\ steps' = steps + 1
             /\ UNCHANGED <<conv, tableInterleaveIssues, pending, stats, sink>>
        ELSE Answered(StatusInternalServerError)

\* GET /convert/infoschema
ConvertSchemaSQL ==
    /\ steps < MaxRequests
    /\ IF driver = ""
       THEN Answered(StatusNotFound)
       ELSE \E failed \in BOOLEAN :
               IF failed
               THEN Answered(StatusNotFound)
               ELSE /\ conv' = ProcessInfoSchema(InterleaveDatabase)
                    /\ resp' = StatusOK
                    /\ steps' = steps + 1
                    /\ UNCHANGED <<driver, tableInterleaveIssues, pending, stats, sink>>

\* GET /ddl: the handler ranges over app.conv.SpSchema without a test.
getDDL(cv) == IF cv = NilConv THEN Panicked ELSE StatusOK

GetDDL ==
    /\ steps < MaxRequests
    /\ Answered(getDDL(conv))

\* GET /typemap: the status of the answer.
getTypeMap(cv, drv) ==
    IF cv = NilConv \/ drv = ""
    THEN StatusNotFound
    ELSE IF DriverSupported(drv) THEN StatusOK ELSE StatusBadRequest

GetTypeMap ==
    /\ steps < MaxRequests
    /\ Answered(getTypeMap(conv, driver))

\* GET /checkinterleave/table?table=...
CheckInterleaveRequest ==
    /\ steps < MaxRequests
    /\ \E table \in TableNamePool :
        IF conv = NilConv \/ driver = ""
        THEN Answered(StatusNotFound)
        ELSE InterleaveServed(checkForInterleavedTables(conv, table))

\* POST /typemap/table?table=...: a body json.Unmarshal rejects is answered
\* with 400; with a well-formed body the handler reads app.conv.ToSource.
UpdateSchemaRequest ==
    /\ steps < MaxRequests
    /\ \E wellFormed \in BOOLEAN :
        IF ~wellFormed
        THEN Answered(StatusBadRequest)
        ELSE IF conv = NilConv
             THEN Answered(Panicked)
             ELSE \E table \in DOMAIN conv.SpSchema, entries \in KeyRequests :
                     /\ CanAddPrimaryKeys(updateColsLoop(conv, driver, table, entries).cv)
                     /\ Served(updateTableSchema(conv, driver, table, entries))

\* POST /typemap/global: the same two bodies; with a well-formed one the
\* handler ranges over app.conv.SpSchema.
SetTypeMapRequest ==
    /\ steps < MaxRequests
    /\ \E wellFormed \in BOOLEAN :
        IF ~wellFormed
        THEN Answered(StatusBadRequest)
        ELSE IF conv = NilConv
             THEN Answered(Panicked)
             ELSE \E typeMap \in SessionTypeMaps :
                     Served(setTypeMapGlobal(conv, driver, typeMap))

NextSession ==
    \/ GetTypeMap
    \/ DatabaseConnection
    \/ ConvertSchemaSQL
    \/ GetDDL
    \/ CheckInterleaveRequest
    \/ UpdateSchemaRequest
    \/ SetTypeMapRequest

SpecSession == InitSession /\ [][NextSession]_vars

\* A request with a well-formed body to one of the handlers that read or
\* change the converted schema.
SchemaRequest ==
    \/ GetDDL
    \/ GetTypeMap
    \/ CheckInterleaveRequest
    \/ UpdateSchemaRequest
    \/ SetTypeMapRequest

ErrorStatuses == {StatusBadRequest, StatusNotFound}

\* C37: a request to a handler of the converted schema that is served while
\* no schema conversion has succeeded is answered with an error status, and
\* the model stays absent.
C37_RejectedBeforeConversion ==
    [][(conv = NilConv /\ SchemaRequest)
       => (resp' \in ErrorStatuses /\ conv' = NilConv
           /\ tableInterleaveIssues' = tableInterleaveIssues)]_vars
----------------------------------------------------------------------------
(* Conversion rates.  getConversionRate rates each table report of          *)
(* internal.AnalyzeTables; pending holds the reports of the latest request  *)
(* and resp the map the handler encodes.                                    *)

\* Go's / on int64: the quotient truncated towards zero.
Quo(a, b) == IF a >= 0 THEN a \div b ELSE -((-a) \div b)

MaxCols == 61

MaxWarnings == 21

\* The requests for the conversion rate in a session.
MaxRatings == 1

\* rateSchema with inclusive thresholds.
rateSchemaInclusive(cols, warnings, missingPKey) ==
    LET good(total, badCount) == badCount <= Quo(total, 20)
        ok(total, badCount) == badCount <= Quo(total, 3)
    IN  IF cols = 0 THEN "GRAY"
        ELSE IF warnings = 0 /\ ~missingPKey THEN "GREEN"
        ELSE IF warnings = 0 /\ missingPKey THEN "BLUE"
        ELSE IF good(cols, warnings) /\ ~missingPKey THEN "BLUE"
        ELSE IF good(cols, warnings) /\ missingPKey THEN "BLUE"
        ELSE IF ok(cols, warnings) /\ ~missingPKey THEN "YELLOW"
        ELSE IF ok(cols, warnings) /\ missingPKey THEN "YELLOW"
        ELSE IF ~missingPKey THEN "RED"
        ELSE "RED"

\* The switch of rateSchema: the first case that holds gives the rating.
rateSchema(cols, warnings, missingPKey) ==
    LET good(total, badCount) == badCount < Quo(total, 20)
        ok(total, badCount) == badCount < Quo(total, 3)
    IN  IF cols = 0 THEN "GRAY"
        ELSE IF warnings = 0 /\ ~missingPKey THEN "GREEN"
        ELSE IF warnings = 0 /\ missingPKey THEN "BLUE"
        ELSE IF good(cols, warnings) /\ ~missingPKey THEN "BLUE"
        ELSE IF good(cols, warnings) /\ missingPKey THEN "BLUE"
        ELSE IF ok(cols, warnings) /\ ~missingPKey THEN "YELLOW"
        ELSE IF ok(cols, warnings) /\ missingPKey THEN "YELLOW"
        ELSE IF ~missingPKey THEN "RED"
        ELSE "RED"

\* The reports internal.AnalyzeTables may return for one table.
Reports ==
    [SpTable : {"t"}, Cols : 0..MaxCols, Warnings : 0..MaxWarnings,
     SyntheticPKey : {"", "synth_id"}]

\* The report of a table (the last one, as rate[t.SpTable] is overwritten).
ReportOf(reports, tb) ==
    reports[CHOOSE i \in DOMAIN reports :
                /\ reports[i].SpTable = tb
                /\ \A j \in DOMAIN reports : reports[j].SpTable = tb => j <= i]

\* The map rate of the handler for the reports.
getConversionRate(reports) ==
    [tb \in {reports[i].SpTable : i \in DOMAIN reports} |->
        rateSchema(ReportOf(reports, tb).Cols, ReportOf(reports, tb).Warnings,
                   ReportOf(reports, tb).SyntheticPKey # "")]

InitRate ==
    /\ conv = MakeConv
    /\ driver = "postgres"
    /\ resp = EmptyMap
    /\ steps = 0
    /\ tableInterleaveIssues = NoInterleaveStatus
    /\ DataIdle

\* GET /conversion
GetConversionRate ==
    \E report \in Reports :
        /\ steps < MaxRatings
        /\ pending' = <<report>>
        /\ resp' = getConversionRate(<<report>>)
        /\ steps' = steps + 1
        /\ UNCHANGED <<conv, driver, tableInterleaveIssues, stats, sink>>

NextRate == GetConversionRate

SpecRate == InitRate /\ [][NextRate]_vars

Ratings == {"GRAY", "GREEN", "BLUE", "YELLOW", "RED"}

\* The rating the case table gives for cols > 0.
RatedAs(rate, cols, warnings, missingPKey) ==
    /\ rate = "GREEN" <=> (warnings = 0 /\ ~missingPKey)
    /\ rate = "BLUE" <=> \/ warnings = 0 /\ missingPKey
                         \/ 0 < warnings /\ warnings < cols \div 20
    /\ rate = "YELLOW" <=> /\ cols \div 20 <= warnings
                           /\ warnings < cols \div 3
                           /\ warnings > 0
    /\ rate = "RED" <=> /\ warnings > 0
                        /\ warnings >= cols \div 20
                        /\ warnings >= cols \div 3

\* C38: every table report the handler has rated carries one of the five
\* ratings: GRAY exactly for a table without columns; otherwise GREEN exactly
\* without warnings and with a key of its own, BLUE exactly without warnings
\* and with a synthetic key or with fewer warnings (at least one) than a
\* twentieth of the columns, YELLOW exactly from a twentieth up to less than a
\* third, RED in the remaining cases; and the rating of the same counts with
\* and without a missing key differs only when there are no warnings.
C38_RatingTable ==
    \A i \in DOMAIN pending :
        \A rate \in {resp[pending[i].SpTable]} :
            /\ rate \in Ratings
            /\ rate = "GRAY" <=> pending[i].Cols = 0
            /\ pending[i].Cols # 0 =>
                  RatedAs(rate, pending[i].Cols, pending[i].Warnings,
                          pending[i].SyntheticPKey # "")
            /\ rateSchema(pending[i].Cols, pending[i].Warnings, TRUE)
                    # rateSchema(pending[i].Cols, pending[i].Warnings, FALSE)
                  => pending[i].Warnings = 0

\* A table of at least sixty columns whose warnings are exactly a twentieth
\* of its columns has been rated YELLOW.
C38_YellowAtTwentieth ==
    /\ steps > 0
    /\ pending # <<>>
    /\ pending[1].Cols >= 60
    /\ pending[1].Warnings = pending[1].Cols \div 20
    /\ resp[pending[1].SpTable] = "YELLOW"
====
